---- MODULE Spec2Model ----
(***************************************************************************)
(* The mock HTTP server engine of PostWomen_Backend                        *)
(* (src/services/mockServerService.js, class MockServerService) and its    *)
(* catch-all dispatch in src/server.js.                                    *)
(*                                                                         *)
(* Strings are sequences of symbols.  A symbol is one of the punctuation   *)
(* characters the code inspects ("/", ":", "*", "{", "}", ".", " ") or a   *)
(* run of letters the code never looks inside ("a", "params", ...).        *)
(* JavaScript values are tagged records [t |-> <typeof>, v |-> <payload>]. *)
(***************************************************************************)
EXTENDS Integers, Sequences, FiniteSets, TLC

VARIABLES
    mockConfigs,   \* this.mockConfigs: the Map's entries, in insertion order
    requestLogs,   \* this.requestLogs: newest entry first
    statistics,    \* this.statistics
    last,          \* the mock request served by the step just taken, and its answer
    call,          \* harness: the pure function under test and its arguments
    ret,           \* harness: its result
    inflight,      \* the mock requests received so far, in arrival order, each
                   \* with the position its handler has reached
    jobs,          \* the microtask queue: requests whose continuation is ready
    now,           \* the time, in timer ticks
    fakerLoaded,   \* this.fakerLoaded
    store,         \* the registry with its objects kept apart: the Map's values
    routeLists,    \* ... and the route arrays those configs refer to
    clock,         \* Date.now(), as the count of the changes made
    returned,      \* what the last management call returned
    limiter,       \* a middleware made by createRateLimiter: its requests Map,
                   \* and what it passed on and answered
    webSocketService,  \* the WebSocketService: connections, connectionStats,
                       \* messageHistory, and the sockets behind them
    teamService,   \* the TeamService: teams, teamMembers, invitations
    themeService,  \* the ThemeService: themes, defaultThemes
    users          \* the User collection the admin routes work on

\* the event loop around the handlers
loopVars == <<inflight, jobs, now, fakerLoaded>>
\* the registry as objects and references
heapVars == <<store, routeLists, clock, returned>>

\* the services beside the mock server: each in a module of its own
serviceVars == <<limiter, webSocketService, teamService, themeService, users>>

\* no request received, nothing loaded, no object allocated
LoopIdle == inflight = <<>> /\ jobs = <<>> /\ now = 0 /\ fakerLoaded = FALSE
HeapIdle == store = <<>> /\ routeLists = <<>> /\ clock = 0 /\ returned = [op |-> "none"]
ServiceIdle ==
    /\ limiter = <<>> /\ webSocketService = <<>> /\ teamService = <<>>
    /\ themeService = <<>> /\ users = <<>>

vars == <<mockConfigs, requestLogs, statistics, last, call, ret, loopVars, heapVars, serviceVars>>

-----------------------------------------------------------------------------
(* Bounds of the model.                                                    *)

MaxPatSegs == 3      \* segments in a generated route pattern
MaxUrlSegs == 2      \* segments in a generated request path
MaxPieces == 2       \* pieces a generated template string is put together from
MaxConfigs == 2      \* configs in the registry at a time
MaxRoutes == 2       \* routes in the registry at a time
MaxRequests == 2     \* mock requests between two clears of the log
MaxLogRequests == 1002  \* the same, where the log is filled beyond its capacity
LogCap == 1000       \* entries the request log keeps

-----------------------------------------------------------------------------
(* JavaScript values.                                                      *)

Str(s) == [t |-> "string", v |-> s]
Undefined == [t |-> "undefined", v |-> <<>>]
Null == [t |-> "null", v |-> <<>>]
IsStr(x) == x.t = "string"

-----------------------------------------------------------------------------
(* String primitives used by the service.                                  *)

\* String.prototype.startsWith
StartsWith(s, p) == Len(p) <= Len(s) /\ SubSeq(s, 1, Len(p)) = p

\* String.prototype.slice(n)
Slice(s, n) == SubSeq(s, n + 1, Len(s))

\* String.prototype.includes, for a one-character needle
Includes(s, c) == \E i \in 1..Len(s) : s[i] = c

\* s.split('/').filter(x => x): the non-empty runs between slashes
RECURSIVE SplitFrom(_, _, _, _)
SplitFrom(s, i, cur, acc) ==
    IF i > Len(s)
    THEN IF cur = <<>> THEN acc ELSE Append(acc, cur)
    ELSE IF s[i] = "/"
         THEN SplitFrom(s, i + 1, <<>>, IF cur = <<>> THEN acc ELSE Append(acc, cur))
         ELSE SplitFrom(s, i + 1, Append(cur, s[i]), acc)

Segments(s) == SplitFrom(s, 1, <<>>, <<>>)

-----------------------------------------------------------------------------
(* matchRoute(routePattern, url, baseUrl).                                 *)
(* The result is one of                                                    *)
(*   [kind |-> "params", params |-> f]  the parameter object, f a function *)
(*                                      from parameter names to segments   *)
(*   [kind |-> "null"]                  no match                           *)
(*   [kind |-> "throw"]                 a TypeError left the function      *)

NoMatch == [kind |-> "null", params |-> <<>>]
Threw == [kind |-> "throw", params |-> <<>>]
Matched(p) == [kind |-> "params", params |-> p]

\* the base URL's length cut off the front whether or not the URL starts
\* with it
CleanUrlCutAlways(url, baseUrl) ==
    LET cut == Slice(url, Len(baseUrl))
    IN IF StartsWith(cut, <<"/">>) THEN cut ELSE <<"/">> \o cut

\* lines 254-257: the base URL is cut off when it is a literal prefix
CleanUrl(url, baseUrl) ==
    LET cut == IF baseUrl # <<>> /\ StartsWith(url, baseUrl)
               THEN Slice(url, Len(baseUrl)) ELSE url
    IN IF StartsWith(cut, <<"/">>) THEN cut ELSE <<"/">> \o cut

\* line 261
NormalizePattern(p) == IF StartsWith(p, <<"/">>) THEN p ELSE <<"/">> \o p

\* line 268 and line 302: the test the code makes for "the route has wildcards"
HasWildcard(routePattern) == Includes(routePattern, "*")

\* the walk with the branch for ** left out: ** is compared as a literal
RECURSIVE WalkNoDoubleStar(_, _, _, _, _)
WalkNoDoubleStar(routeSegments, urlSegments, i, urlIndex, params) ==
    IF i > Len(routeSegments)
    THEN [kind |-> "end", urlIndex |-> urlIndex, params |-> params]
    ELSE IF urlIndex >= Len(urlSegments)
    THEN [kind |-> "null", urlIndex |-> urlIndex, params |-> params]
    ELSE LET routeSegment == routeSegments[i] IN
         IF routeSegment = <<"*">>
         THEN [kind |-> "end", urlIndex |-> urlIndex, params |-> params]
         ELSE IF StartsWith(routeSegment, <<":">>)
         THEN WalkNoDoubleStar(routeSegments, urlSegments, i + 1, urlIndex + 1,
                   (Slice(routeSegment, 1) :> urlSegments[urlIndex + 1]) @@ params)
         ELSE IF routeSegment = urlSegments[urlIndex + 1]
         THEN WalkNoDoubleStar(routeSegments, urlSegments, i + 1, urlIndex + 1, params)
         ELSE [kind |-> "null", urlIndex |-> urlIndex, params |-> params]

\* lines 275-299: the walk over the route's segments
RECURSIVE Walk(_, _, _, _, _)
Walk(routeSegments, urlSegments, i, urlIndex, params) ==
    IF i > Len(routeSegments)
    THEN [kind |-> "end", urlIndex |-> urlIndex, params |-> params]
    ELSE IF urlIndex >= Len(urlSegments)
    THEN [kind |-> "null", urlIndex |-> urlIndex, params |-> params]
    ELSE LET routeSegment == routeSegments[i] IN
         IF routeSegment = <<"*">>
         THEN [kind |-> "end", urlIndex |-> urlIndex, params |-> params]
         ELSE IF routeSegment = <<"*", "*">>
         THEN [kind |-> "end", urlIndex |-> urlIndex, params |-> params]
         ELSE IF StartsWith(routeSegment, <<":">>)
         THEN Walk(routeSegments, urlSegments, i + 1, urlIndex + 1,
                   (Slice(routeSegment, 1) :> urlSegments[urlIndex + 1]) @@ params)
         ELSE IF routeSegment = urlSegments[urlIndex + 1]
         THEN Walk(routeSegments, urlSegments, i + 1, urlIndex + 1, params)
         ELSE [kind |-> "null", urlIndex |-> urlIndex, params |-> params]

matchRoute(routePattern, url, baseUrl) ==
    IF ~IsStr(routePattern)
    THEN Threw    \* line 261: routePattern.startsWith is not a function
    ELSE
    LET pattern == NormalizePattern(routePattern.v)
        routeSegments == Segments(pattern)
        urlSegments == Segments(CleanUrl(url, baseUrl))
    IN  IF ~HasWildcard(pattern) /\ Len(routeSegments) # Len(urlSegments)
        THEN NoMatch
        ELSE LET w == Walk(routeSegments, urlSegments, 1, 0, <<>>) IN
             IF w.kind = "null" THEN NoMatch
             ELSE IF ~HasWildcard(pattern) /\ w.urlIndex < Len(urlSegments)
             THEN NoMatch
             ELSE Matched(w.params)

-----------------------------------------------------------------------------
(* Template rendering: processTemplate and evaluateExpression.             *)
(* Values: Str, Num (payload: its decimal text), Bool (payload: its text), *)
(* Null, Undefined, Arr (payload: sequence of values), Obj (payload:       *)
(* sequence of <<key, value>> entries in insertion order), Fn (payload:    *)
(* what a call with no arguments produces, a value or Raises).             *)

Num(text) == [t |-> "number", v |-> text]
Bool(text) == [t |-> "boolean", v |-> text]
Arr(items) == [t |-> "array", v |-> items]
Obj(entries) == [t |-> "object", v |-> entries]
Fn(outcome) == [t |-> "function", v |-> outcome]
Raises == [t |-> "raise", v |-> <<>>]

\* String(x), the conversion String.prototype.replace applies to what the
\* replacer returns; a function converts to its source text
RECURSIVE JoinComma(_)
ToStr(x) ==
    CASE x.t = "string" -> x.v
      [] x.t = "number" -> x.v
      [] x.t = "boolean" -> x.v
      [] x.t = "null" -> <<"null">>
      [] x.t = "undefined" -> <<"undefined">>
      [] x.t = "function" -> <<"FunctionSource">>
      [] x.t = "object" -> <<"[object Object]">>
      [] x.t = "array" -> JoinComma(x.v)
JoinComma(items) ==
    IF items = <<>> THEN <<>>
    ELSE IF Len(items) = 1 THEN ToStr(items[1])
    ELSE ToStr(items[1]) \o <<",">> \o JoinComma(Tail(items))

\* properties every object inherits from Object.prototype (one stands for all)
InheritedKeys == {<<"toString">>}
Digit(k) == CASE k = 0 -> "0" [] k = 1 -> "1" [] k = 2 -> "2" [] OTHER -> "9"

\* `part in result` for a truthy value with typeof result === 'object'
HasProperty(x, part) ==
    \/ part \in InheritedKeys
    \/ x.t = "object" /\ \E i \in 1..Len(x.v) : x.v[i][1] = part
    \/ x.t = "array" /\ (part = <<"length">> \/ \E i \in 1..Len(x.v) : part = <<Digit(i - 1)>>)

\* result[part]
GetProperty(x, part) ==
    IF x.t = "object" /\ \E i \in 1..Len(x.v) : x.v[i][1] = part
    THEN x.v[CHOOSE i \in 1..Len(x.v) : x.v[i][1] = part][2]
    ELSE IF x.t = "array" /\ part = <<"length">> THEN Num(<<Digit(Len(x.v))>>)
    ELSE IF x.t = "array" /\ \E i \in 1..Len(x.v) : part = <<Digit(i - 1)>>
    THEN x.v[CHOOSE i \in 1..Len(x.v) : part = <<Digit(i - 1)>>]
    ELSE Fn(Str(<<"[object Undefined]">>))    \* Object.prototype.toString

\* expression.split('.'): empty parts are kept
RECURSIVE SplitDot(_, _, _, _)
SplitDot(s, i, cur, acc) ==
    IF i > Len(s) THEN Append(acc, cur)
    ELSE IF s[i] = "." THEN SplitDot(s, i + 1, <<>>, Append(acc, cur))
    ELSE SplitDot(s, i + 1, Append(cur, s[i]), acc)

\* String.prototype.trim
RECURSIVE Trim(_)
Trim(s) ==
    IF s = <<>> THEN s
    ELSE IF Head(s) = " " THEN Trim(Tail(s))
    ELSE IF s[Len(s)] = " " THEN Trim(SubSeq(s, 1, Len(s) - 1))
    ELSE s

\* lines 374-387: the loop over the parts
RECURSIVE EvalParts(_, _, _)
EvalParts(parts, i, result) ==
    IF i > Len(parts) THEN result
    ELSE IF result.t \in {"object", "array"} /\ HasProperty(result, parts[i])
    THEN EvalParts(parts, i + 1, GetProperty(result, parts[i]))
    ELSE IF result.t = "function"
    THEN IF result.v.t = "raise" THEN Undefined
         ELSE EvalParts(parts, i + 1, result.v)
    ELSE Undefined

evaluateExpression(expression, context) ==
    EvalParts(SplitDot(expression, 1, <<>>, <<>>), 1, context)

\* the replacer without its test for undefined
SubstituteUnchecked(match, expression, context) ==
    ToStr(evaluateExpression(Trim(expression), context))

\* the replacer of line 345: the text that takes the place of one match
Substitute(match, expression, context) ==
    LET result == evaluateExpression(Trim(expression), context)
    IN IF result.t # "undefined" THEN ToStr(result) ELSE match

\* first index >= i holding "}", Len(s) + 1 when there is none
RECURSIVE RunEnd(_, _)
RunEnd(s, i) == IF i > Len(s) \/ s[i] = "}" THEN i ELSE RunEnd(s, i + 1)

\* obj.replace(/\{\{([^}]+)\}\}/g, replacer), scanning from index i
RECURSIVE ReplaceFrom(_, _, _)
ReplaceFrom(s, i, context) ==
    IF i > Len(s) THEN <<>>
    ELSE LET j == RunEnd(s, i + 2) IN
         IF /\ i + 1 <= Len(s) /\ s[i] = "{" /\ s[i + 1] = "{"
            /\ j > i + 2
            /\ j + 1 <= Len(s) /\ s[j] = "}" /\ s[j + 1] = "}"
         THEN Substitute(SubSeq(s, i, j + 1), SubSeq(s, i + 2, j - 1), context)
              \o ReplaceFrom(s, j + 2, context)
         ELSE <<s[i]>> \o ReplaceFrom(s, i + 1, context)

\* processed[processedKey] = value on an entry list.  processed is a plain
\* object, so the key __proto__ reaches the accessor it inherits from
\* Object.prototype: the assignment sets the prototype (or, for a value that
\* is no object, does nothing) and makes no property of processed.
SetEntry(entries, key, val) ==
    IF key = <<"__proto__">> THEN entries
    ELSE IF \E i \in 1..Len(entries) : entries[i][1] = key
    THEN [i \in 1..Len(entries) |->
            IF entries[i][1] = key THEN <<key, val>> ELSE entries[i]]
    ELSE Append(entries, <<key, val>>)

RECURSIVE processTemplate(_, _)
RECURSIVE ProcessEntries(_, _, _, _)
ProcessEntries(entries, i, context, processed) ==
    IF i > Len(entries) THEN processed
    ELSE ProcessEntries(entries, i + 1, context,
             SetEntry(processed, ReplaceFrom(entries[i][1], 1, context),
                      processTemplate(entries[i][2], context)))

processTemplate(obj, context) ==
    IF obj.t = "string" THEN Str(ReplaceFrom(obj.v, 1, context))
    ELSE IF obj.t = "array"
    THEN Arr([i \in 1..Len(obj.v) |-> processTemplate(obj.v[i], context)])
    ELSE IF obj.t = "object"
    THEN Obj(ProcessEntries(obj.v, 1, context, <<>>))
    ELSE obj

-----------------------------------------------------------------------------
(* Inputs of the matchRoute harness.                                       *)

PatSegs == {<<"a">>, <<":", "p">>, <<"*">>, <<"*", "*">>, <<"a", "*">>}
UrlSegs == {<<"a">>, <<"b">>, <<"a", "*">>}
BaseUrls == {<<>>, <<"/", "a">>}

SeqsUpTo(S, n) == UNION {[1..k -> S] : k \in 0..n}

\* "/" + segment, for every segment
RECURSIVE JoinSlash(_)
JoinSlash(segs) ==
    IF segs = <<>> THEN <<>> ELSE <<"/">> \o Head(segs) \o JoinSlash(Tail(segs))

Idle == [fn |-> "none"]
NoRequest == [kind |-> "none", method |-> <<>>, url |-> <<>>,
              match |-> [kind |-> "null", ci |-> 0, ri |-> 0, params |-> <<>>],
              response |-> [status |-> 0, headers |-> <<>>, body |-> <<>>, delay |-> 0]]
Pending == [kind |-> "pending", params |-> <<>>]

InitMatch ==
    /\ mockConfigs = <<>>
    /\ requestLogs = <<>>
    /\ statistics = [totalRequests |-> 0, matchedRequests |-> 0, totalConfigs |-> 0,
                     enabledConfigs |-> 0, totalRoutes |-> 0]
    /\ last = NoRequest
    /\ \E ps \in SeqsUpTo(PatSegs, MaxPatSegs), us \in SeqsUpTo(UrlSegs, MaxUrlSegs),
          b \in BaseUrls, pre \in BaseUrls, lead \in BOOLEAN :
          call = [fn |-> "matchRoute",
                  routePattern |-> IF lead \/ ps = <<>> THEN JoinSlash(ps)
                                   ELSE Tail(JoinSlash(ps)),
                  url |-> pre \o JoinSlash(us),
                  baseUrl |-> b]
    /\ ret = Pending
    /\ LoopIdle /\ ServiceIdle /\ HeapIdle

CallMatchRoute ==
    /\ call.fn = "matchRoute"
    /\ ret = Pending
    /\ ret' = matchRoute(Str(call.routePattern), call.url, call.baseUrl)
    /\ UNCHANGED <<mockConfigs, requestLogs, statistics, last, call, loopVars, heapVars, serviceVars>>

NextMatch == CallMatchRoute

SpecMatch == InitMatch /\ [][NextMatch]_vars

-----------------------------------------------------------------------------
(* The template context of generateResponse, lines 311-328.  picks holds   *)
(* what the clock and the random generators produce for this response.     *)

\* the parameter object of matchRoute as an object value
RECURSIVE EntriesOf(_, _)
EntriesOf(f, keys) ==
    IF keys = {} THEN <<>>
    ELSE LET k == CHOOSE x \in keys : TRUE
         IN <<<<k, Str(f[k])>>>> \o EntriesOf(f, keys \ {k})

ParamsObj(params) == Obj(EntriesOf(params, DOMAIN params))

\* createFakerProxy, lines 396-427 (two of its generators)
FakerProxy(picks) ==
    Obj(<< <<<<"name">>, Obj(<< <<<<"fullName">>, Fn(Str(picks.fullName))>> >>)>>,
           <<<<"internet">>, Obj(<< <<<<"email">>, Fn(Str(picks.email))>> >>)>> >>)

TemplateContext(params, body, headers, picks) ==
    Obj(<< <<<<"params">>, ParamsObj(params)>>,
           <<<<"body">>, body>>,
           <<<<"headers">>, headers>>,
           <<<<"faker">>, FakerProxy(picks)>>,
           <<<<"date">>, Obj(<< <<<<"now">>, Str(picks.now)>>,
                                <<<<"timestamp">>, Num(picks.timestamp)>>,
                                <<<<"unix">>, Num(picks.unix)>> >>)>>,
           <<<<"random">>, Obj(<< <<<<"uuid">>, Str(picks.uuid)>>,
                                  <<<<"int">>, Fn(Num(picks.int))>>,
                                  <<<<"float">>, Fn(Num(picks.float))>>,
                                  <<<<"bool">>, Fn(Bool(picks.bool))>>,
                                  \* choice(arr) without arr: TypeError
                                  <<<<"choice">>, Fn(Raises)>> >>)>> >>)

-----------------------------------------------------------------------------
(* Inputs of the processTemplate harness.                                  *)

\* a piece of template text: literal text, or a {{...}} placeholder
Lit(text) == [text |-> text, expr |-> <<>>, placeholder |-> FALSE]
Hole(expr) == [text |-> <<"{", "{">> \o expr \o <<"}", "}">>, expr |-> expr,
               placeholder |-> TRUE]

Pieces == {
    Lit(<<"id", " ">>),
    Lit(<<"{", "{", "}", "}">>),
    Hole(<<"nope", ".", "nope">>),
    Hole(<<"params", ".", "id">>),
    Hole(<<" ", "params", ".", "id", " ">>),
    Hole(<<"params", ".", "id", ".", "x">>),
    Hole(<<"random", ".", "int">>),
    Hole(<<"random", ".", "int", ".", "x">>),
    Hole(<<"random", ".", "choice", ".", "x">>),
    Hole(<<"faker", ".", "internet", ".", "email">>),
    Hole(<<"body", ".", "name">>),
    Hole(<<"body">>) }

RECURSIVE TextOf(_)
TextOf(ps) == IF ps = <<>> THEN <<>> ELSE Head(ps).text \o TextOf(Tail(ps))

Picks == [now : {<<"2024-01-01T00:00:00.000Z">>}, timestamp : {<<"1704067200000">>},
          unix : {<<"1704067200">>}, uuid : {<<"lq1abc">>}, int : {<<"42">>},
          float : {<<"0.5">>}, bool : {<<"true">>, <<"false">>},
          fullName : {<<"John Doe">>}, email : {<<"user@example.com">>}]

Bodies == {Undefined, Null, Obj(<< <<<<"name">>, Str(<<"Ann">>)>> >>)}
ParamSets == {<<>>, <<"id">> :> <<"7">>}
Shapes == {"string", "array", "object", "number"}

\* the JSON-like tree of the given shape around the template string
Tree(shape, text) ==
    CASE shape = "string" -> Str(text)
      [] shape = "array" -> Arr(<<Str(text), Num(<<"1">>), Str(<<"id">>)>>)
      [] shape = "object" -> Obj(<< <<<<"k">>, Str(text)>>,
                                    <<<<"n">>, Arr(<<Str(text)>>)>> >>)
      [] shape = "number" -> Num(<<"1">>)

InitTemplate ==
    /\ mockConfigs = <<>>
    /\ requestLogs = <<>>
    /\ statistics = [totalRequests |-> 0, matchedRequests |-> 0, totalConfigs |-> 0,
                     enabledConfigs |-> 0, totalRoutes |-> 0]
    /\ last = NoRequest
    /\ \E ps \in SeqsUpTo(Pieces, MaxPieces), shape \in Shapes, body \in Bodies,
          params \in ParamSets, picks \in Picks :
          call = [fn |-> "processTemplate", pieces |-> ps, shape |-> shape,
                  obj |-> Tree(shape, TextOf(ps)),
                  params |-> params, body |-> body, picks |-> picks]
    /\ ret = Pending
    /\ LoopIdle /\ ServiceIdle /\ HeapIdle

\* the context generateResponse builds for the call's request
CallContext == TemplateContext(call.params, call.body, Obj(<<>>), call.picks)

CallProcessTemplate ==
    /\ call.fn = "processTemplate"
    /\ ret = Pending
    /\ ret' = processTemplate(call.obj, CallContext)
    /\ UNCHANGED <<mockConfigs, requestLogs, statistics, last, call, loopVars, heapVars, serviceVars>>

NextTemplate == CallProcessTemplate

SpecTemplate == InitTemplate /\ [][NextTemplate]_vars

\* processTemplate on whole JSON-like values, as JSON.parse delivers them in
\* the body of a route: most of them without any {{
PlainTexts == { <<"id", " ">>, <<"{", "a", "}", "}">>, <<"}", "}", "{">>, <<>>,
                <<"{", "{", "params", ".", "id", "}", "}">> }

ValuesAround(text) == {
    Str(text), Num(<<"1">>), Null, Bool(<<"true">>),
    Arr(<<Str(text), Num(<<"1">>), Null>>),
    Obj(<< <<text, Str(<<"v">>)>>, <<<<"k">>, Arr(<<Str(text)>>)>> >>),
    Obj(<< <<<<"k">>, Obj(<< <<<<"n">>, Str(text)>> >>)>> >>),
    Obj(<< <<<<"__proto__">>, Str(text)>>, <<<<"k">>, Num(<<"1">>)>> >>) }

InitPlain ==
    /\ mockConfigs = <<>>
    /\ requestLogs = <<>>
    /\ statistics = [totalRequests |-> 0, matchedRequests |-> 0, totalConfigs |-> 0,
                     enabledConfigs |-> 0, totalRoutes |-> 0]
    /\ last = NoRequest
    /\ \E text \in PlainTexts, body \in Bodies, params \in ParamSets, picks \in Picks :
          \E value \in ValuesAround(text) :
              call = [fn |-> "processTemplate", pieces |-> <<>>, shape |-> "value",
                      obj |-> value, params |-> params, body |-> body, picks |-> picks]
    /\ ret = Pending
    /\ LoopIdle /\ ServiceIdle /\ HeapIdle

SpecPlain == InitPlain /\ [][NextTemplate]_vars

-----------------------------------------------------------------------------
(* The registry: mockConfigs is the sequence of the Map's values in        *)
(* insertion order.  A config is [id, baseUrl, enabled, routes], a route   *)
(* [id, method, path, response].                                           *)

\* a comparison that keeps the case
KeepCase(s) == s

\* String.prototype.toLowerCase
LowerChar(c) ==
    CASE c = "G" -> "g" [] c = "E" -> "e" [] c = "T" -> "t"
      [] c = "P" -> "p" [] c = "O" -> "o" [] c = "S" -> "s"
      [] OTHER -> c
ToLowerCase(s) == [i \in 1..Len(s) |-> LowerChar(s[i])]

NotFound == [kind |-> "null", ci |-> 0, ri |-> 0, params |-> <<>>]
FindThrew == [kind |-> "throw", ci |-> 0, ri |-> 0, params |-> <<>>]
Found(i, j, p) == [kind |-> "found", ci |-> i, ri |-> j, params |-> p]

\* lines 239-246: the loop over the routes of config i, from route j
RECURSIVE FindInRoutes(_, _, _, _, _)
FindInRoutes(configs, i, j, method, url) ==
    IF j > Len(configs[i].routes) THEN NotFound
    ELSE LET route == configs[i].routes[j] IN
         IF ~IsStr(route.method)
         THEN FindThrew    \* route.method.toLowerCase is not a function
         ELSE IF ToLowerCase(route.method.v) = ToLowerCase(method)
         THEN LET m == matchRoute(route.path, url, configs[i].baseUrl) IN
              IF m.kind = "throw" THEN FindThrew
              ELSE IF m.kind = "params" THEN Found(i, j, m.params)
              ELSE FindInRoutes(configs, i, j + 1, method, url)
         ELSE FindInRoutes(configs, i, j + 1, method, url)

\* lines 236-248: the loop over the configs, from config i
RECURSIVE FindInConfigs(_, _, _, _)
FindInConfigs(configs, i, method, url) ==
    IF i > Len(configs) THEN NotFound
    ELSE IF ~configs[i].enabled THEN FindInConfigs(configs, i + 1, method, url)
    ELSE LET r == FindInRoutes(configs, i, 1, method, url) IN
         IF r.kind = "null" THEN FindInConfigs(configs, i + 1, method, url)
         ELSE r

\* the walk over the configs from the last one to the first
RECURSIVE FindInConfigsBackward(_, _, _, _)
FindInConfigsBackward(configs, i, method, url) ==
    IF i < 1 THEN NotFound
    ELSE IF ~configs[i].enabled THEN FindInConfigsBackward(configs, i - 1, method, url)
    ELSE LET r == FindInRoutes(configs, i, 1, method, url) IN
         IF r.kind = "null" THEN FindInConfigsBackward(configs, i - 1, method, url)
         ELSE r

findMatchingRouteBackward(configs, method, url) ==
    FindInConfigsBackward(configs, Len(configs), method, url)

findMatchingRoute(configs, method, url) == FindInConfigs(configs, 1, method, url)

\* lines 453-457
RECURSIVE SumRoutes(_)
SumRoutes(configs) ==
    IF configs = <<>> THEN 0 ELSE Len(Head(configs).routes) + SumRoutes(Tail(configs))

updateStatistics(stats, configs) ==
    [stats EXCEPT !.totalConfigs = Len(configs),
                  !.enabledConfigs = Cardinality({i \in 1..Len(configs) : configs[i].enabled}),
                  !.totalRoutes = SumRoutes(configs)]

\* indexes of the config, of the route, with a given id; 0 when there is none
ConfigIndex(configs, id) ==
    IF \E i \in 1..Len(configs) : configs[i].id = id
    THEN CHOOSE i \in 1..Len(configs) : configs[i].id = id ELSE 0

\* routes.findIndex(r => r.id === routeId): the first one
RouteIndex(routes, id) ==
    IF \E j \in 1..Len(routes) : routes[j].id = id
    THEN CHOOSE j \in 1..Len(routes) :
             routes[j].id = id /\ \A k \in 1..(j - 1) : routes[k].id # id
    ELSE 0

RemoveAt(seq, i) == SubSeq(seq, 1, i - 1) \o SubSeq(seq, i + 1, Len(seq))

-----------------------------------------------------------------------------
(* Inputs of the management operations.                                    *)

GET == <<"G", "E", "T">>
POST == <<"P", "O", "S", "T">>
DefaultBaseUrl == <<"/", "api">>
JsonHeaders == Obj(<< <<<<"Content-Type">>, Str(<<"application/json">>)>> >>)

\* what the body of POST /api/mock-configs/:id/routes may carry
RouteInputs == {
    [method |-> Str(GET), path |-> Str(<<"/", "a">>),
     body |-> Obj(<< <<<<"ok">>, Str(<<"yes">>)>> >>)],
    [method |-> Str(<<"g", "e", "t">>), path |-> Str(<<"/", ":", "id">>),
     body |-> Obj(<< <<<<"id">>, Str(<<"{", "{", "params", ".", "id", "}", "}">>)>> >>)],
    [method |-> Undefined, path |-> Undefined, body |-> Undefined],
    [method |-> Num(<<"5">>), path |-> Str(<<"/", "a">>), body |-> Undefined] }

\* what the body of PUT /api/mock-configs/:id/routes/:routeId may carry
RouteUpdates == { [method |-> Str(POST)] }

\* what the body of PUT /api/mock-configs/:id may carry
ConfigUpdates == { [enabled |-> TRUE], [enabled |-> FALSE] }

\* req.method of a request the catch-all receives
ReqMethods == {GET}
\* req.originalUrl of a request the catch-all /mock/* receives
ReqUrls == {<<"/", "mock", "/", "a">>}

\* what the body of POST /api/mock-configs may carry
MockBaseUrl == <<"/", "mock">>
ConfigInputs == { [baseUrl |-> Str(MockBaseUrl), enabled |-> TRUE],
                  [baseUrl |-> Str(MockBaseUrl), enabled |-> FALSE] }

\* route.response?.x || default
OrDefault(x, d) == IF x.t \in {"undefined", "null"} THEN d ELSE x

-----------------------------------------------------------------------------
(* The management operations.                                              *)

Init ==
    /\ mockConfigs = <<>>
    /\ requestLogs = <<>>
    /\ statistics = [totalRequests |-> 0, matchedRequests |-> 0, totalConfigs |-> 0,
                     enabledConfigs |-> 0, totalRoutes |-> 0]
    /\ last = NoRequest
    /\ call = Idle
    /\ ret = Pending
    /\ LoopIdle /\ ServiceIdle /\ HeapIdle

\* the ids of the configs and routes in the registry
RECURSIVE LiveIds(_)
LiveIds(configs) ==
    IF configs = <<>> THEN {}
    ELSE {Head(configs).id}
         \cup {Head(configs).routes[j].id : j \in 1..Len(Head(configs).routes)}
         \cup LiveIds(Tail(configs))

\* generateId, lines 573-575: an id no config and no route of the registry
\* carries.  Ids are opaque; the model writes them <<kind, k>> and takes the
\* least k that is free.
generateId(configs, kind) ==
    LET k == CHOOSE n \in 1..(MaxConfigs + MaxRoutes + 1) :
                 /\ <<kind, n>> \notin LiveIds(configs)
                 /\ \A m \in 1..(n - 1) : <<kind, m>> \in LiveIds(configs)
    IN <<kind, k>>

\* the ids a request may name: those of the registry's configs, or of its
\* routes, and one that none carries
ConfigIdsOrNot(configs) == {id \in LiveIds(configs) : id[1] = "config"} \cup {<<"none", 0>>}
RouteIdsOrNot(configs) == {id \in LiveIds(configs) : id[1] = "route"} \cup {<<"none", 0>>}

\* createMockConfig, lines 76-90
CreateMockConfig ==
    /\ Len(mockConfigs) < MaxConfigs
    /\ \E config \in ConfigInputs :
         LET mockConfig == [id |-> generateId(mockConfigs, "config"),
                            baseUrl |-> OrDefault(config.baseUrl, Str(DefaultBaseUrl)).v,
                            enabled |-> config.enabled # FALSE, routes |-> <<>>]
             configs == Append(mockConfigs, mockConfig)
         IN /\ mockConfigs' = configs
            /\ statistics' = updateStatistics(statistics, configs)
    /\ last' = NoRequest
    /\ UNCHANGED <<requestLogs, call, ret, loopVars, heapVars, serviceVars>>

\* updateMockConfig, lines 103-116: Map.set on a key that exists keeps its place
UpdateMockConfigWith(bodies) ==
    \E id \in ConfigIdsOrNot(mockConfigs), updates \in bodies :
        LET i == ConfigIndex(mockConfigs, id) IN
        /\ IF i = 0 THEN UNCHANGED <<mockConfigs, statistics>>
           ELSE LET configs == [mockConfigs EXCEPT ![i] = updates @@ mockConfigs[i]]
                IN /\ mockConfigs' = configs
                   /\ statistics' = updateStatistics(statistics, configs)
        /\ last' = NoRequest
        /\ UNCHANGED <<requestLogs, call, ret, loopVars, heapVars, serviceVars>>

UpdateMockConfig == UpdateMockConfigWith(ConfigUpdates)

\* deleteMockConfig, lines 119-125
DeleteMockConfig ==
    \E id \in ConfigIdsOrNot(mockConfigs) :
        LET i == ConfigIndex(mockConfigs, id) IN
        /\ IF i = 0 THEN UNCHANGED <<mockConfigs, statistics>>
           ELSE LET configs == RemoveAt(mockConfigs, i)
                IN /\ mockConfigs' = configs
                   /\ statistics' = updateStatistics(statistics, configs)
        /\ last' = NoRequest
        /\ UNCHANGED <<requestLogs, call, ret, loopVars, heapVars, serviceVars>>

\* addRoute, lines 128-149
AddRoute ==
    /\ SumRoutes(mockConfigs) < MaxRoutes
    /\ \E configId \in ConfigIdsOrNot(mockConfigs), route \in RouteInputs :
        LET i == ConfigIndex(mockConfigs, configId) IN
        IF i = 0 THEN UNCHANGED <<mockConfigs, statistics>>
        ELSE LET newRoute ==
                   [id |-> generateId(mockConfigs, "route"),
                    method |-> IF route.method.t = "undefined" THEN Str(GET)
                               ELSE route.method,
                    path |-> route.path,
                    response |-> [status |-> 200, headers |-> JsonHeaders,
                                  body |-> OrDefault(route.body, Obj(<<>>)),
                                  delay |-> 0]]
                 configs == [mockConfigs EXCEPT ![i].routes = Append(@, newRoute)]
             IN /\ mockConfigs' = configs
                /\ statistics' = updateStatistics(statistics, configs)
    /\ last' = NoRequest
    /\ UNCHANGED <<requestLogs, call, ret, loopVars, heapVars, serviceVars>>

\* updateRoute, lines 152-167
UpdateRouteWith(bodies) ==
    \E configId \in ConfigIdsOrNot(mockConfigs), routeId \in RouteIdsOrNot(mockConfigs),
       updates \in bodies :
        LET i == ConfigIndex(mockConfigs, configId)
            j == IF i = 0 THEN 0 ELSE RouteIndex(mockConfigs[i].routes, routeId)
        IN
        /\ IF i = 0 \/ j = 0 THEN UNCHANGED mockConfigs
           ELSE mockConfigs' =
                  [mockConfigs EXCEPT ![i].routes[j] = updates @@ mockConfigs[i].routes[j]]
        /\ last' = NoRequest
        /\ UNCHANGED <<requestLogs, statistics, call, ret, loopVars, heapVars, serviceVars>>

UpdateRoute == UpdateRouteWith(RouteUpdates)

\* deleteRoute, lines 170-181
DeleteRoute ==
    \E configId \in ConfigIdsOrNot(mockConfigs), routeId \in RouteIdsOrNot(mockConfigs) :
        LET i == ConfigIndex(mockConfigs, configId)
            j == IF i = 0 THEN 0 ELSE RouteIndex(mockConfigs[i].routes, routeId)
        IN
        /\ IF i = 0 \/ j = 0 THEN UNCHANGED <<mockConfigs, statistics>>
           ELSE LET configs == [mockConfigs EXCEPT ![i].routes = RemoveAt(@, j)]
                IN /\ mockConfigs' = configs
                   /\ statistics' = updateStatistics(statistics, configs)
        /\ last' = NoRequest
        /\ UNCHANGED <<requestLogs, call, ret, loopVars, heapVars, serviceVars>>

\* the log emptied and totalRequests reset, matchedRequests left as it was
ClearRequestLogsKeepMatched ==
    /\ requestLogs' = <<>>
    /\ statistics' = [statistics EXCEPT !.totalRequests = 0]
    /\ last' = NoRequest
    /\ UNCHANGED <<mockConfigs, call, ret, loopVars, heapVars, serviceVars>>

\* clearRequestLogs, lines 436-440
ClearRequestLogs ==
    /\ requestLogs' = <<>>
    /\ statistics' = [statistics EXCEPT !.totalRequests = 0, !.matchedRequests = 0]
    /\ last' = NoRequest
    /\ UNCHANGED <<mockConfigs, call, ret, loopVars, heapVars, serviceVars>>

\* clearAllData, lines 595-606
clearAllData ==
    /\ mockConfigs' = <<>>
    /\ requestLogs' = <<>>
    /\ statistics' = [totalRequests |-> 0, matchedRequests |-> 0, totalConfigs |-> 0,
                      enabledConfigs |-> 0, totalRoutes |-> 0]
    /\ last' = NoRequest
    /\ UNCHANGED <<call, ret, loopVars, heapVars, serviceVars>>

-----------------------------------------------------------------------------
(* Serving a mock request: the catch-all of src/server.js, lines 312-342,  *)
(* around processMockRequest.  An entry of the log is [n, method, url,     *)
(* matched]; n, the value of totalRequests when the entry was made, stands *)
(* for the entry's id and timestamp.                                       *)

\* the template rewritten where it stands: obj[key] = processTemplate(...)
TemplateAfterInPlace(obj, context) == processTemplate(obj, context)

\* what processTemplate leaves behind in the tree it was given: it assigns
\* only to `processed`, the object it makes at line 358; replace and map
\* return new values; so the tree is as it was
TemplateAfter(obj, context) == obj

\* the route as generateResponse leaves it in the registry
RouteAfterRender(route, params, requestData, picks) ==
    LET templateContext ==
            TemplateContext(params, requestData.body, requestData.headers, picks)
    IN [route EXCEPT
          !.response.body = TemplateAfter(@, templateContext),
          !.response.headers = TemplateAfter(@, templateContext)]

\* generateResponse, lines 310-340
generateResponse(route, params, requestData, picks) ==
    LET templateContext ==
            TemplateContext(params, requestData.body, requestData.headers, picks)
    IN [status |-> route.response.status,
        headers |-> processTemplate(route.response.headers, templateContext),
        body |-> processTemplate(route.response.body, templateContext),
        delay |-> route.response.delay]

\* the entry pushed at the end instead
AppendLogAtEnd(logs, logEntry) ==
    LET grown == Append(logs, logEntry)
    IN IF Len(grown) > LogCap THEN SubSeq(grown, 1, LogCap) ELSE grown

\* the log trimmed from the wrong end: slice(-1000)
AppendLogKeepOldest(logs, logEntry) ==
    LET grown == <<logEntry>> \o logs
    IN IF Len(grown) > LogCap THEN SubSeq(grown, 2, Len(grown)) ELSE grown

\* lines 202-208: unshift, then keep the first 1000
AppendLog(logs, logEntry) ==
    LET grown == <<logEntry>> \o logs
    IN IF Len(grown) > LogCap THEN SubSeq(grown, 1, LogCap) ELSE grown

\* processMockRequest, lines 184-232, and the answer of the catch-all:
\*   "rendered"  the route's rendered response is sent
\*   "notfound"  404 with a payload naming the path and the method
\*   "error"     500, an exception reached the catch block
MockDispatch(method, url, picks) ==
    LET logEntry == [n |-> statistics.totalRequests + 1, method |-> method,
                     url |-> url, matched |-> FALSE]
        logs == AppendLog(requestLogs, logEntry)
        counted == [statistics EXCEPT !.totalRequests = @ + 1]
        matchResult == findMatchingRoute(mockConfigs, method, url)
        requestData == [body |-> Undefined, headers |-> Obj(<<>>)]
    IN
    IF matchResult.kind = "found"
    THEN /\ requestLogs' = [logs EXCEPT ![1].matched = TRUE]
         /\ mockConfigs' = [mockConfigs EXCEPT
                ![matchResult.ci].routes[matchResult.ri] =
                    RouteAfterRender(@, matchResult.params, requestData, picks)]
         /\ statistics' = [counted EXCEPT !.matchedRequests = @ + 1]
         /\ last' = [kind |-> "rendered", method |-> method, url |-> url,
                     match |-> matchResult,
                     response |-> generateResponse(
                         mockConfigs[matchResult.ci].routes[matchResult.ri],
                         matchResult.params, requestData, picks)]
    ELSE /\ requestLogs' = logs
         /\ UNCHANGED mockConfigs
         /\ statistics' = counted
         /\ IF matchResult.kind = "null"
            THEN last' = [kind |-> "notfound", method |-> method, url |-> url,
                          match |-> matchResult,
                          response |-> [status |-> 404, headers |-> Undefined,
                                        body |-> [path |-> url, method |-> method],
                                        delay |-> 0]]
            ELSE last' = [kind |-> "error", method |-> method, url |-> url,
                          match |-> matchResult,
                          response |-> [status |-> 500, headers |-> Undefined,
                                        body |-> Undefined, delay |-> 0]]

ServeUpTo(limit) ==
    /\ statistics.totalRequests < limit
    /\ \E method \in ReqMethods, url \in ReqUrls :
           MockDispatch(method, url, CHOOSE picks \in Picks : TRUE)
    /\ UNCHANGED <<call, ret, loopVars, heapVars, serviceVars>>

ServeMockRequest == ServeUpTo(MaxRequests)

Next ==
    \/ CreateMockConfig
    \/ UpdateMockConfig
    \/ DeleteMockConfig
    \/ AddRoute
    \/ UpdateRoute
    \/ DeleteRoute
    \/ ClearRequestLogs
    \/ ServeMockRequest

Spec == Init /\ [][Next]_vars

\* The request log on its own: requests against the registry as constructed,
\* enough of them to fill the log beyond its capacity.
ServeLoggedRequest == ServeUpTo(MaxLogRequests)

NextLog == ServeLoggedRequest \/ ClearRequestLogs

SpecLog == Init /\ [][NextLog]_vars

-----------------------------------------------------------------------------
(* The registry as objects and references.  store is the sequence of the   *)
(* Map's values in insertion order.  A config object is [id, enabled,      *)
(* routes, updatedAt]; routes is the index in routeLists of the array the  *)
(* config refers to, 0 when the config has no routes property.  A route is *)
(* [id, method, updatedAt], updatedAt 0 while it was never updated.  The   *)
(* code replaces route objects and never writes into one, so a route is a  *)
(* value; arrays are written in place (push, splice, element assignment),  *)
(* so they are kept apart and referred to.  Ids and timestamps both come   *)
(* from Date.now(): clock counts the writes, and both read clock + 1.      *)

MaxStoreConfigs == 3    \* configs in the store at a time
MaxListItems == 2       \* routes in one array
MaxClock == 4           \* writes to the store

MaxLists == MaxStoreConfigs
NoList == [used |-> FALSE, items |-> <<>>]
UnknownId == <<"none", 0>>

\* a new empty array: the first index not in use
AllocList(lists) ==
    CHOOSE k \in 1..Len(lists) :
        ~lists[k].used /\ \A m \in 1..(k - 1) : lists[m].used

\* arrays no config refers to any more are gone
Collect(st, lists) ==
    [k \in 1..Len(lists) |->
        IF \E i \in 1..Len(st) : st[i].routes = k THEN lists[k] ELSE NoList]

RECURSIVE SumLengths(_, _)
SumLengths(st, lists) ==
    IF st = <<>> THEN 0
    ELSE Len(lists[Head(st).routes].items) + SumLengths(Tail(st), lists)

\* updateStatistics, lines 453-457, on the store: lines 454 and 455 assign,
\* then the reduce of line 456 reads c.routes.length of every config and
\* throws TypeError at a config without routes, before totalRoutes is assigned
StoreStatistics(stats, st, lists) ==
    LET bad == \E i \in 1..Len(st) : st[i].routes = 0
        counted == [stats EXCEPT
                      !.totalConfigs = Len(st),
                      !.enabledConfigs = Cardinality({i \in 1..Len(st) : st[i].enabled})]
    IN [threw |-> bad,
        stats |-> IF bad THEN counted
                  ELSE [counted EXCEPT !.totalRoutes = SumLengths(st, lists)]]

\* the ids a caller may name: those in the store and one that is in none
StoreConfigIds == {store[i].id : i \in 1..Len(store)} \cup {UnknownId}
StoreRouteIds ==
    UNION {{routeLists[store[i].routes].items[j].id :
               j \in 1..Len(routeLists[store[i].routes].items)} :
           i \in {n \in 1..Len(store) : store[n].routes # 0}} \cup {UnknownId}

\* what a management call returned and what its endpoint answered
Answer(op, configId, routeId, result, status) ==
    [op |-> op, configId |-> configId, routeId |-> routeId,
     result |-> result, status |-> status]

InitStore ==
    /\ mockConfigs = <<>>
    /\ requestLogs = <<>>
    /\ statistics = [totalRequests |-> 0, matchedRequests |-> 0, totalConfigs |-> 0,
                     enabledConfigs |-> 0, totalRoutes |-> 0]
    /\ last = NoRequest
    /\ call = Idle
    /\ ret = Pending
    /\ LoopIdle /\ ServiceIdle
    /\ store = <<>>
    /\ routeLists = [k \in 1..MaxLists |-> NoList]
    /\ clock = 0
    /\ returned = Answer("none", UnknownId, UnknownId, "ok", 0)

\* createMockConfig, lines 76-90, behind POST /api/mock-configs
createMockConfig ==
    /\ Len(store) < MaxStoreConfigs
    /\ clock < MaxClock
    /\ \E enabled \in BOOLEAN :
         LET k == AllocList(routeLists)
             mockConfig == [id |-> <<"config", clock + 1>>, enabled |-> enabled,
                            routes |-> k, updatedAt |-> clock + 1]
             st == Append(store, mockConfig)
             lists == [routeLists EXCEPT ![k] = [used |-> TRUE, items |-> <<>>]]
             s == StoreStatistics(statistics, st, lists)
         IN /\ store' = st
            /\ routeLists' = lists
            /\ statistics' = s.stats
            /\ returned' = IF s.threw
                           THEN Answer("createMockConfig", mockConfig.id, UnknownId, "threw", 500)
                           ELSE Answer("createMockConfig", mockConfig.id, UnknownId, "ok", 201)
    /\ clock' = clock + 1
    /\ UNCHANGED <<mockConfigs, requestLogs, last, call, ret, loopVars, serviceVars>>

\* what the body of PUT /api/mock-configs/:id may carry: a value for enabled,
\* or null for routes; the spread of line 107 takes whatever it is given
StoreConfigUpdates == {[enabled |-> TRUE], [enabled |-> FALSE], [routes |-> 0]}

\* updateMockConfig, lines 103-116, behind PUT /api/mock-configs/:id
updateMockConfig ==
    \E id \in StoreConfigIds, updates \in StoreConfigUpdates :
        LET i == ConfigIndex(store, id) IN
        /\ IF i = 0
           THEN /\ returned' = Answer("updateMockConfig", id, UnknownId, "null", 404)
                /\ UNCHANGED <<store, routeLists, statistics, clock>>
           ELSE /\ clock < MaxClock
                /\ LET updatedConfig == [updates @@ store[i] EXCEPT !.updatedAt = clock + 1]
                       st == [store EXCEPT ![i] = updatedConfig]
                       lists == Collect(st, routeLists)
                       s == StoreStatistics(statistics, st, lists)
                   IN /\ store' = st
                      /\ routeLists' = lists
                      /\ statistics' = s.stats
                      /\ returned' = IF s.threw
                                     THEN Answer("updateMockConfig", id, UnknownId, "threw", 500)
                                     ELSE Answer("updateMockConfig", id, UnknownId, "ok", 200)
                /\ clock' = clock + 1
        /\ UNCHANGED <<mockConfigs, requestLogs, last, call, ret, loopVars, serviceVars>>

\* deleteMockConfig, lines 119-125, behind DELETE /api/mock-configs/:id
deleteMockConfig ==
    \E id \in StoreConfigIds :
        LET i == ConfigIndex(store, id) IN
        /\ IF i = 0
           THEN /\ returned' = Answer("deleteMockConfig", id, UnknownId, "false", 404)
                /\ UNCHANGED <<store, routeLists, statistics>>
           ELSE LET st == RemoveAt(store, i)
                    lists == Collect(st, routeLists)
                    s == StoreStatistics(statistics, st, lists)
                IN /\ store' = st
                   /\ routeLists' = lists
                   /\ statistics' = s.stats
                   /\ returned' = IF s.threw
                                  THEN Answer("deleteMockConfig", id, UnknownId, "threw", 500)
                                  ELSE Answer("deleteMockConfig", id, UnknownId, "ok", 204)
        /\ UNCHANGED <<clock, mockConfigs, requestLogs, last, call, ret, loopVars, serviceVars>>

\* addRoute, lines 128-149, behind POST /api/mock-configs/:id/routes;
\* config.routes.push of line 145 throws when the config has no routes
addRoute ==
    \E configId \in StoreConfigIds, method \in {"GET", "POST"} :
        LET i == ConfigIndex(store, configId) IN
        /\ IF i = 0
           THEN /\ returned' = Answer("addRoute", configId, UnknownId, "null", 404)
                /\ UNCHANGED <<store, routeLists, statistics, clock>>
           ELSE IF store[i].routes = 0
           THEN /\ returned' = Answer("addRoute", configId, UnknownId, "threw", 500)
                /\ UNCHANGED <<store, routeLists, statistics, clock>>
           ELSE /\ clock < MaxClock
                /\ Len(routeLists[store[i].routes].items) < MaxListItems
                /\ LET newRoute == [id |-> <<"route", clock + 1>>, method |-> method,
                                    updatedAt |-> 0]
                       lists == [routeLists EXCEPT
                                    ![store[i].routes].items = Append(@, newRoute)]
                       st == [store EXCEPT ![i].updatedAt = clock + 1]
                       s == StoreStatistics(statistics, st, lists)
                   IN /\ store' = st
                      /\ routeLists' = lists
                      /\ statistics' = s.stats
                      /\ returned' = IF s.threw
                                     THEN Answer("addRoute", configId, newRoute.id, "threw", 500)
                                     ELSE Answer("addRoute", configId, newRoute.id, "ok", 201)
                /\ clock' = clock + 1
        /\ UNCHANGED <<mockConfigs, requestLogs, last, call, ret, loopVars, serviceVars>>

\* updateRoute, lines 152-167, behind PUT /api/mock-configs/:id/routes/:routeId;
\* config.routes.findIndex of line 156 throws when the config has no routes
updateRoute ==
    \E configId \in StoreConfigIds, routeId \in StoreRouteIds, method \in {"POST"} :
        LET i == ConfigIndex(store, configId)
            j == IF i = 0 \/ store[i].routes = 0 THEN 0
                 ELSE RouteIndex(routeLists[store[i].routes].items, routeId)
        IN
        /\ IF i = 0
           THEN /\ returned' = Answer("updateRoute", configId, routeId, "null", 404)
                /\ UNCHANGED <<store, routeLists, clock>>
           ELSE IF store[i].routes = 0
           THEN /\ returned' = Answer("updateRoute", configId, routeId, "threw", 500)
                /\ UNCHANGED <<store, routeLists, clock>>
           ELSE IF j = 0
           THEN /\ returned' = Answer("updateRoute", configId, routeId, "null", 404)
                /\ UNCHANGED <<store, routeLists, clock>>
           ELSE /\ clock < MaxClock
                /\ routeLists' = [routeLists EXCEPT
                      ![store[i].routes].items[j] =
                          [@ EXCEPT !.method = method, !.updatedAt = clock + 1]]
                /\ store' = [store EXCEPT ![i].updatedAt = clock + 1]
                /\ returned' = Answer("updateRoute", configId, routeId, "ok", 200)
                /\ clock' = clock + 1
        /\ UNCHANGED <<statistics, mockConfigs, requestLogs, last, call, ret, loopVars, serviceVars>>

\* deleteRoute, lines 170-181, behind DELETE /api/mock-configs/:id/routes/:routeId
deleteRoute ==
    \E configId \in StoreConfigIds, routeId \in StoreRouteIds :
        LET i == ConfigIndex(store, configId)
            j == IF i = 0 \/ store[i].routes = 0 THEN 0
                 ELSE RouteIndex(routeLists[store[i].routes].items, routeId)
        IN
        /\ IF i = 0
           THEN /\ returned' = Answer("deleteRoute", configId, routeId, "false", 404)
                /\ UNCHANGED <<store, routeLists, statistics, clock>>
           ELSE IF store[i].routes = 0
           THEN /\ returned' = Answer("deleteRoute", configId, routeId, "threw", 500)
                /\ UNCHANGED <<store, routeLists, statistics, clock>>
           ELSE IF j = 0
           THEN /\ returned' = Answer("deleteRoute", configId, routeId, "false", 404)
                /\ UNCHANGED <<store, routeLists, statistics, clock>>
           ELSE /\ clock < MaxClock
                /\ LET lists == [routeLists EXCEPT
                                    ![store[i].routes].items = RemoveAt(@, j)]
                       st == [store EXCEPT ![i].updatedAt = clock + 1]
                       s == StoreStatistics(statistics, st, lists)
                   IN /\ store' = st
                      /\ routeLists' = lists
                      /\ statistics' = s.stats
                      /\ returned' = IF s.threw
                                     THEN Answer("deleteRoute", configId, routeId, "threw", 500)
                                     ELSE Answer("deleteRoute", configId, routeId, "ok", 204)
                /\ clock' = clock + 1
        /\ UNCHANGED <<mockConfigs, requestLogs, last, call, ret, loopVars, serviceVars>>

\* exportMockConfigs, lines 539-545: configs is an array of the Map's values,
\* the config objects themselves
exportMockConfigs(st) == st

\* what importMockConfigs may be given:
\*   "missing"   an object without configs
\*   "notalist"  configs is a string
\*   "noroutes"  configs holds one entry, which has no routes
\*   "document"  the JSON text of an export, parsed: every array in it is new
\*   "live"      the value exportMockConfigs returned, handed over as it is
ImportKinds == {"missing", "notalist", "noroutes", "document", "live"}

ImportEntriesOf(kind, st) ==
    CASE kind = "noroutes" -> <<[id |-> UnknownId, enabled |-> TRUE, routes |-> 0,
                                 updatedAt |-> 0]>>
      [] kind \in {"document", "live"} -> exportMockConfigs(st)
      [] OTHER -> <<>>

\* lines 554-562: the loop over data.configs; {...config, id} is a new object
\* with the properties of the entry, its routes array included as it is
RECURSIVE ImportLoop(_, _, _, _, _)
ImportLoop(entries, kind, st, lists, c) ==
    IF entries = <<>> THEN [store |-> st, lists |-> lists, clock |-> c]
    ELSE LET config == Head(entries)
             parsed == kind = "document" /\ config.routes # 0
             k == IF parsed THEN AllocList(lists) ELSE config.routes
             newConfig == [config EXCEPT !.id = <<"config", c + 1>>, !.routes = k]
         IN ImportLoop(Tail(entries), kind, Append(st, newConfig),
                IF parsed
                THEN [lists EXCEPT ![k] = [used |-> TRUE,
                                           items |-> lists[config.routes].items]]
                ELSE lists,
                c + 1)

\* importMockConfigs, lines 548-570, behind POST /api/mock-import: whatever
\* is thrown inside, by the check of line 550 or by updateStatistics at line
\* 565, ends in the catch of line 567 and { success: false }, answered 400
importMockConfigs ==
    \E kind \in ImportKinds :
        LET entries == ImportEntriesOf(kind, store) IN
        /\ Len(store) + Len(entries) <= MaxStoreConfigs
        /\ clock + Len(entries) <= MaxClock
        /\ IF kind \in {"missing", "notalist"}
           THEN /\ returned' = Answer("importMockConfigs", UnknownId, UnknownId, "failure", 400)
                /\ UNCHANGED <<store, routeLists, statistics, clock>>
           ELSE LET done == ImportLoop(entries, kind, store, routeLists, clock)
                    s == StoreStatistics(statistics, done.store, done.lists)
                IN /\ store' = done.store
                   /\ routeLists' = done.lists
                   /\ clock' = done.clock
                   /\ statistics' = s.stats
                   /\ returned' =
                        IF s.threw
                        THEN Answer("importMockConfigs", UnknownId, UnknownId, "failure", 400)
                        ELSE Answer("importMockConfigs", UnknownId, UnknownId, "ok", 200)
        /\ UNCHANGED <<mockConfigs, requestLogs, last, call, ret, loopVars, serviceVars>>

NextStore ==
    \/ createMockConfig
    \/ updateMockConfig
    \/ deleteMockConfig
    \/ addRoute
    \/ updateRoute
    \/ deleteRoute
    \/ importMockConfigs

SpecStore == InitStore /\ [][NextStore]_vars

-----------------------------------------------------------------------------
(* The catch-all of src/server.js, lines 312-342, step by step on the      *)
(* event loop.  A handler, a timer callback and the completion of the      *)
(* dynamic import are tasks; the code after an await is a job (microtask). *)
(* The loop takes the next task only when no job is left, and runs the     *)
(* jobs in the order they became ready.  A request is at one of:           *)
(*   "awaitLoad"   in processMockRequest at `await this.loadFaker()`       *)
(*   "awaitProxy"  logged and resolved to a route, in generateResponse at  *)
(*                 `await this.createFakerProxy()`                         *)
(*   "timer"       rendered, setTimeout(..., delay) pending                *)
(*   "answered"    a response was sent                                     *)
(* The awaits through which a finished call returns to its caller change  *)
(* nothing and are taken together with the step before them.               *)

MaxLoopRequests == 2    \* mock requests received
MaxTime == 3            \* timer ticks
MaxLimit == 2           \* the largest limit asked of the log listing

SlowUrl == <<"/", "mock", "/", "slow", "/", "7">>
FastUrl == <<"/", "mock", "/", "fast">>
OtherUrl == <<"/", "mock", "/", "other">>
LoopUrls == {SlowUrl, FastUrl, OtherUrl}

\* routes as addRoute stores them, given a response in the posted body
SlowRoute ==
    [id |-> <<"route", 1>>, method |-> Str(GET),
     path |-> Str(<<"/", "slow", "/", ":", "id">>),
     response |-> [status |-> 200, headers |-> JsonHeaders,
                   body |-> Obj(<< <<<<"v">>, Str(<<"{", "{", "params", ".", "id", "}", "}">>)>> >>),
                   delay |-> 2]]
FastRoute ==
    [id |-> <<"route", 2>>, method |-> Str(<<"g", "e", "t">>),
     path |-> Str(<<"/", "fast">>),
     response |-> [status |-> 200, headers |-> JsonHeaders,
                   body |-> Obj(<< <<<<"v">>, Str(<<"fast">>)>> >>), delay |-> 0]]
\* ... and one posted with a number for its method
NumberRoute ==
    [id |-> <<"route", 3>>, method |-> Num(<<"5">>), path |-> Str(<<"/", "other">>),
     response |-> [status |-> 200, headers |-> JsonHeaders, body |-> Obj(<<>>),
                   delay |-> 0]]

LoopRegistries ==
    { << [id |-> <<"config", 1>>, baseUrl |-> MockBaseUrl, enabled |-> TRUE,
          routes |-> routes] >> :
      routes \in {<<SlowRoute, FastRoute>>, <<SlowRoute, FastRoute, NumberRoute>>} }

\* what the body of PUT /api/mock-configs/:id/routes/:routeId carries when it
\* replaces the ResponseSpec
NewResponse ==
    [status |-> 201,
     headers |-> Obj(<< <<<<"X-Version">>, Str(<<"new">>)>> >>),
     body |-> Obj(<< <<<<"v">>, Str(<<"new", " ", "{", "{", "params", ".", "id", "}", "}">>)>> >>),
     delay |-> 1]
ResponseUpdates == { [response |-> NewResponse] }

NoRoute == [id |-> UnknownId, method |-> Undefined, path |-> Undefined,
            response |-> [status |-> 0, headers |-> Undefined, body |-> Undefined,
                          delay |-> 0]]
NoAnswer == [kind |-> "none", status |-> 0, headers |-> Undefined, body |-> Undefined]

\* a request as the catch-all receives it
NewRequest(method, url) ==
    [method |-> method, url |-> url, phase |-> "awaitLoad",
     match |-> NotFound, configId |-> UnknownId, route |-> NoRoute,
     response |-> NoRoute.response, setAt |-> 0, due |-> 0,
     answer |-> NoAnswer, at |-> 0, arrived |-> now]

InitLoop ==
    /\ mockConfigs \in LoopRegistries
    /\ requestLogs = <<>>
    /\ statistics = updateStatistics(
           [totalRequests |-> 0, matchedRequests |-> 0, totalConfigs |-> 0,
            enabledConfigs |-> 0, totalRoutes |-> 0], mockConfigs)
    /\ last = NoRequest
    /\ call = Idle
    /\ ret = Pending
    /\ LoopIdle /\ ServiceIdle
    /\ HeapIdle

\* a handler that sleeps through its delay keeps the loop to itself
MayRunAfterDelays(reqs, r) ==
    \A q \in 1..Len(reqs) : q # r => reqs[q].phase # "timer"

\* lines 326-330 of src/server.js: setTimeout hands the callback to the loop and returns, so
\* a pending delay keeps no other task from running
MayRun(reqs, r) == TRUE

\* the requests of a set, latest first
RECURSIVE LatestFirst(_)
LatestFirst(rs) ==
    IF rs = {} THEN <<>>
    ELSE LET r == CHOOSE x \in rs : \A y \in rs : y <= x
         IN <<r>> \o LatestFirst(rs \ {r})

\* the jobs of the requests that waited for the import, in the order in which
\* the requests called loadFaker: reactions to a promise run first come,
\* first served
RECURSIVE ResumeOrder(_)
ResumeOrder(rs) ==
    IF rs = {} THEN <<>>
    ELSE LET r == CHOOSE x \in rs : \A y \in rs : x <= y
         IN <<r>> \o ResumeOrder(rs \ {r})

\* app.use('/mock/*'), lines 312-321, and processMockRequest to its first
\* await, line 189; loadFaker returns at once when the faker is loaded
ReceiveRequest ==
    /\ jobs = <<>>
    /\ Len(inflight) < MaxLoopRequests
    /\ MayRun(inflight, Len(inflight) + 1)
    /\ \E method \in ReqMethods, url \in LoopUrls :
           inflight' = Append(inflight, NewRequest(method, url))
    /\ jobs' = IF fakerLoaded THEN <<Len(inflight) + 1>> ELSE <<>>
    /\ UNCHANGED <<mockConfigs, requestLogs, statistics, last, call, ret, now,
                   fakerLoaded, heapVars, serviceVars>>

\* loadFaker, lines 19-32: the import of line 22 settles (or fails, line 25)
FakerLoads ==
    /\ jobs = <<>>
    /\ ~fakerLoaded
    /\ \E r \in 1..Len(inflight) : inflight[r].phase = "awaitLoad"
    /\ fakerLoaded' = TRUE
    /\ jobs' = ResumeOrder({r \in 1..Len(inflight) : inflight[r].phase = "awaitLoad"})
    /\ UNCHANGED <<mockConfigs, requestLogs, statistics, last, call, ret, inflight,
                   now, heapVars, serviceVars>>

\* processMockRequest, lines 191-231, up to the await inside generateResponse;
\* an unmatched request is answered by lines 332-337 of src/server.js, one
\* that threw by line 340
ResolveJob(r) ==
    LET req == inflight[r]
        logEntry == [n |-> statistics.totalRequests + 1, req |-> r,
                     method |-> req.method, url |-> req.url, matched |-> FALSE]
        logs == AppendLog(requestLogs, logEntry)
        counted == [statistics EXCEPT !.totalRequests = @ + 1]
        matchResult == findMatchingRoute(mockConfigs, req.method, req.url)
    IN
    IF matchResult.kind = "found"
    THEN /\ requestLogs' = [logs EXCEPT ![1].matched = TRUE]
         /\ statistics' = [counted EXCEPT !.matchedRequests = @ + 1]
         /\ inflight' = [inflight EXCEPT ![r] =
                [req EXCEPT !.phase = "awaitProxy", !.match = matchResult,
                            !.configId = mockConfigs[matchResult.ci].id,
                            !.route = mockConfigs[matchResult.ci].routes[matchResult.ri]]]
         /\ jobs' = Append(Tail(jobs), r)
    ELSE /\ requestLogs' = logs
         /\ statistics' = counted
         /\ inflight' = [inflight EXCEPT ![r] =
                [req EXCEPT !.phase = "answered", !.match = matchResult, !.at = now,
                            !.answer = IF matchResult.kind = "null"
                                       THEN [kind |-> "notfound", status |-> 404,
                                             headers |-> Undefined,
                                             body |-> [path |-> req.url,
                                                       method |-> req.method]]
                                       ELSE [kind |-> "error", status |-> 500,
                                             headers |-> Undefined,
                                             body |-> Undefined]]]
         /\ jobs' = Tail(jobs)

\* generateResponse, lines 321-339, with the route resolve handed over, and
\* lines 323-330 of src/server.js: the timer is set
RenderJob(r) ==
    LET req == inflight[r]
        response == generateResponse(req.route, req.match.params,
                        [body |-> Undefined, headers |-> Obj(<<>>)],
                        CHOOSE picks \in Picks : TRUE)
    IN /\ inflight' = [inflight EXCEPT ![r] =
              [req EXCEPT !.phase = "timer", !.response = response,
                          !.setAt = now, !.due = now + response.delay]]
       /\ jobs' = Tail(jobs)
       /\ UNCHANGED <<requestLogs, statistics>>

RunJob ==
    /\ jobs # <<>>
    /\ IF inflight[Head(jobs)].phase = "awaitLoad"
       THEN ResolveJob(Head(jobs))
       ELSE RenderJob(Head(jobs))
    /\ UNCHANGED <<mockConfigs, last, call, ret, now, fakerLoaded, heapVars, serviceVars>>

\* the callback sending what the route holds by now
DeliveryRereadingRoute(result, configs) ==
    LET i == ConfigIndex(configs, result.configId)
        j == IF i = 0 THEN 0 ELSE RouteIndex(configs[i].routes, result.route.id)
    IN [kind |-> "rendered",
        status |-> IF j = 0 THEN result.response.status
                   ELSE configs[i].routes[j].response.status,
        headers |-> result.response.headers,
        body |-> result.response.body]

\* lines 327-329 of src/server.js: the callback sends the status, headers
\* and body of the result it closed over
Delivery(result, configs) ==
    [kind |-> "rendered", status |-> result.response.status,
     headers |-> result.response.headers, body |-> result.response.body]

\* the timer of request r fires
Deliver(r) ==
    /\ jobs = <<>>
    /\ r \in 1..Len(inflight)
    /\ inflight[r].phase = "timer"
    /\ inflight[r].due <= now
    /\ MayRun(inflight, r)
    /\ inflight' = [inflight EXCEPT ![r] =
           [@ EXCEPT !.phase = "answered", !.at = now,
                     !.answer = Delivery(inflight[r], mockConfigs)]]
    /\ UNCHANGED <<mockConfigs, requestLogs, statistics, last, call, ret, jobs, now,
                   fakerLoaded, heapVars, serviceVars>>

DeliverSome == \E r \in 1..MaxLoopRequests : Deliver(r)

\* time passes while a timer is pending
Tick ==
    /\ jobs = <<>>
    /\ now < MaxTime
    /\ \E r \in 1..Len(inflight) : inflight[r].phase = "timer"
    /\ now' = now + 1
    /\ UNCHANGED <<mockConfigs, requestLogs, statistics, last, call, ret, inflight,
                   jobs, fakerLoaded, heapVars, serviceVars>>

\* getRequestLogs, lines 431-433: Array.prototype.slice(0, limit)
getRequestLogs(logs, limit) ==
    LET end == IF limit < 0
               THEN (IF Len(logs) + limit > 0 THEN Len(logs) + limit ELSE 0)
               ELSE (IF limit < Len(logs) THEN limit ELSE Len(logs))
    IN SubSeq(logs, 1, end)

\* GET /api/mock-logs, lines 229-237 of src/server.js
GetMockLogs ==
    /\ jobs = <<>>
    /\ \E limit \in 0..MaxLimit :
          ret' = [kind |-> "logs", limit |-> limit,
                  entries |-> getRequestLogs(requestLogs, limit)]
    /\ UNCHANGED <<mockConfigs, requestLogs, statistics, last, call, loopVars, heapVars, serviceVars>>

\* the management handlers are tasks as well: PUT and DELETE of a route,
\* lines 203-226 of src/server.js, and DELETE of a configuration, lines 177-187
RouteUpdatedMeanwhile == jobs = <<>> /\ UpdateRouteWith(ResponseUpdates)

RouteDeletedMeanwhile == jobs = <<>> /\ DeleteRoute

\* PUT /api/mock-configs/:id, lines 164-174 of src/server.js, with a body
\* that carries the list of routes
RoutesUpdates == {[routes |-> <<[response |-> NewResponse] @@ SlowRoute, FastRoute>>]}

ConfigUpdatedMeanwhile == jobs = <<>> /\ UpdateMockConfigWith(RoutesUpdates)

ConfigDeletedMeanwhile == jobs = <<>> /\ DeleteMockConfig

\* requests and the management of the registry
NextLoop ==
    \/ ReceiveRequest
    \/ FakerLoads
    \/ RunJob
    \/ DeliverSome
    \/ Tick
    \/ RouteUpdatedMeanwhile
    \/ RouteDeletedMeanwhile
    \/ ConfigUpdatedMeanwhile
    \/ ConfigDeletedMeanwhile

SpecLoop == InitLoop /\ [][NextLoop]_vars

\* requests and the listing of the log
NextListing ==
    \/ ReceiveRequest
    \/ FakerLoads
    \/ RunJob
    \/ DeliverSome
    \/ Tick
    \/ GetMockLogs

SpecListing == InitLoop /\ [][NextListing]_vars

\* DELETE /api/mock-logs, lines 240-247 of src/server.js, and clearAllData
\* called between two tasks
LogsCleared == jobs = <<>> /\ ClearRequestLogs

AllCleared == jobs = <<>> /\ clearAllData

\* requests and the clearing of the log and of everything
NextClear ==
    \/ ReceiveRequest
    \/ FakerLoads
    \/ RunJob
    \/ LogsCleared
    \/ AllCleared

SpecClear == InitLoop /\ [][NextClear]_vars

\* the entries of the log that are marked matched
MatchedEntries == {i \in 1..Len(requestLogs) : requestLogs[i].matched}

\* C24: whatever the interleaving of requests with clearRequestLogs and
\* clearAllData, 0 <= matchedRequests <= totalRequests, and while the log is
\* below its capacity totalRequests is the number of its entries and
\* matchedRequests the number of its entries marked matched
C24_CountersAgreeWithLog ==
    /\ 0 <= statistics.matchedRequests
    /\ statistics.matchedRequests <= statistics.totalRequests
    /\ Len(requestLogs) < LogCap =>
          /\ statistics.totalRequests = Len(requestLogs)
          /\ statistics.matchedRequests = Cardinality(MatchedEntries)

\* the first request was logged, counted and cleared away; the second one
\* is then logged and counted alone
C24_Witness ==
    /\ Len(inflight) = 2
    /\ inflight[1].phase # "awaitLoad" /\ inflight[1].match.kind = "found"
    /\ inflight[2].phase # "awaitLoad" /\ inflight[2].match.kind = "found"
    /\ Len(requestLogs) = 1
    /\ requestLogs[1].req = 2
    /\ statistics.totalRequests = 1
    /\ statistics.matchedRequests = 1

-----------------------------------------------------------------------------
(* generateResponse with the clock and Math.random as they are read: now   *)
(* is Date.now() in milliseconds, and inflight holds, for every response   *)
(* rendered so far, the route, what the clock and the generator delivered  *)
(* while its context was built (reads), and the response.                  *)

MaxRendered == 2        \* responses rendered in one behaviour

\* what Math.random().toString(36).substr(2) may deliver
Draws == {"k3f", "9zq"}

\* new Date(ms).toISOString(), Date.now() and Date.now().toString(36) as text
IsoText(ms) == <<"2024-01-01T00:00:00.00", ToString(ms), "Z">>
MsText(ms) == <<"170406720000", ToString(ms)>>
UnixText(ms) == <<"1704067200">>
IdText(ms, draw) == <<"lq1ab", ToString(ms), draw>>

\* lines 316-322: date.now, date.timestamp and date.unix are read from the
\* clock one after the other, and random.uuid is one call of generateId, line
\* 574, which reads the clock and draws once
PicksOf(reads) ==
    [(CHOOSE picks \in Picks : TRUE) EXCEPT
        !.now = IsoText(reads.now),
        !.timestamp = MsText(reads.timestamp),
        !.unix = UnixText(reads.unix),
        !.uuid = IdText(reads.id, reads.draw)]

\* what a context built one tick later reads
LaterReads(reads) ==
    [now |-> reads.now + 1, timestamp |-> reads.timestamp + 1,
     unix |-> reads.unix + 1, id |-> reads.id + 1,
     draw |-> CHOOSE d \in Draws : d # reads.draw]

\* a context of its own for the headers
RenderWithContextPerPart(route, params, requestData, reads) ==
    [generateResponse(route, params, requestData, PicksOf(reads)) EXCEPT
        !.headers = processTemplate(route.response.headers,
                        TemplateContext(params, requestData.body, requestData.headers,
                                        PicksOf(LaterReads(reads))))]

\* generateResponse, lines 310-340: one context, line 311, for the body and
\* for the headers
RenderWith(route, params, requestData, reads) ==
    generateResponse(route, params, requestData, PicksOf(reads))

NowHole == <<"{", "{", "date", ".", "now", "}", "}">>
UuidHole == <<"{", "{", "random", ".", "uuid", "}", "}">>

\* the body and the headers of a route that name the time twice and once,
\* and the uuid twice and once
StampedBody(nowText, uuidText) ==
    Obj(<< <<<<"at">>, Str(nowText \o <<" ">> \o nowText)>>,
           <<<<"ids">>, Arr(<<Str(uuidText), Str(<<"#">> \o uuidText)>>)>> >>)
StampedHeaders(nowText, uuidText) ==
    Obj(<< <<<<"X-Time">>, Str(nowText)>>, <<<<"X-Request-Id">>, Str(uuidText)>> >>)

StampedRoute ==
    [id |-> <<"route", 4>>, method |-> Str(GET), path |-> Str(<<"/", "stamp">>),
     response |-> [status |-> 200, headers |-> StampedHeaders(NowHole, UuidHole),
                   body |-> StampedBody(NowHole, UuidHole), delay |-> 0]]

RenderedRoutes == {StampedRoute, FastRoute}

InitRender ==
    /\ mockConfigs = <<>>
    /\ requestLogs = <<>>
    /\ statistics = [totalRequests |-> 0, matchedRequests |-> 0, totalConfigs |-> 0,
                     enabledConfigs |-> 0, totalRoutes |-> 0]
    /\ last = NoRequest
    /\ call = Idle
    /\ ret = Pending
    /\ LoopIdle /\ ServiceIdle /\ HeapIdle

\* one call of generateResponse; the clock may move on between the reads of
\* lines 317-319 and the read of generateId
RenderResponse ==
    /\ Len(inflight) < MaxRendered
    /\ \E route \in RenderedRoutes, skew \in 0..1, draw \in Draws :
          /\ now + skew <= MaxTime
          /\ LET reads == [now |-> now, timestamp |-> now, unix |-> now,
                           id |-> now + skew, draw |-> draw]
             IN inflight' = Append(inflight,
                    [route |-> route, reads |-> reads,
                     response |-> RenderWith(route, <<>>,
                                     [body |-> Undefined, headers |-> Obj(<<>>)], reads)])
          /\ now' = now + skew
    /\ UNCHANGED <<mockConfigs, requestLogs, statistics, last, call, ret, jobs,
                   fakerLoaded, heapVars, serviceVars>>

\* a millisecond passes between two requests
ClockTicks ==
    /\ now < MaxTime
    /\ now' = now + 1
    /\ UNCHANGED <<mockConfigs, requestLogs, statistics, last, call, ret, inflight,
                   jobs, fakerLoaded, heapVars, serviceVars>>

NextRender == RenderResponse \/ ClockTicks

SpecRender == InitRender /\ [][NextRender]_vars

\* C23: in one response every {{date.now}} of the body and of the headers
\* is replaced by one value, the time read when the context of this response
\* was built, and every {{random.uuid}} by the one id generated then; each
\* response has the values of its own reads
C23_CapturedOncePerResponse ==
    \A r \in 1..Len(inflight) :
        inflight[r].route = StampedRoute =>
            LET nowText == IsoText(inflight[r].reads.now)
                uuidText == IdText(inflight[r].reads.id, inflight[r].reads.draw)
            IN /\ inflight[r].response.body = StampedBody(nowText, uuidText)
               /\ inflight[r].response.headers = StampedHeaders(nowText, uuidText)

\* two responses of the route, rendered at different times with different
\* draws: each holds its own time and its own id at every place
C23_Witness ==
    /\ Len(inflight) = 2
    /\ inflight[1].route = StampedRoute /\ inflight[2].route = StampedRoute
    /\ inflight[1].reads.now # inflight[2].reads.now
    /\ inflight[1].reads.draw # inflight[2].reads.draw
    /\ inflight[1].response.body # inflight[2].response.body
    /\ inflight[1].response.headers # inflight[2].response.headers
    /\ inflight[2].response.headers =
          StampedHeaders(IsoText(inflight[2].reads.now),
                         IdText(inflight[2].reads.id, inflight[2].reads.draw))

-----------------------------------------------------------------------------
(* Claims about requests on the event loop.                                *)

\* the route a request resolved to is still registered under its
\* configuration
RouteStillThere(configs, req) ==
    \E i \in 1..Len(configs) :
        /\ configs[i].id = req.configId
        /\ \E j \in 1..Len(configs[i].routes) : configs[i].routes[j].id = req.route.id

\* request r is answered by this step
AnsweredNow(r) ==
    /\ r \in 1..Len(inflight)
    /\ inflight[r].phase # "answered"
    /\ inflight'[r].phase = "answered"

\* C15: a request whose route, or the configuration of that route, was
\* deleted after it was resolved and before its response is sent is answered
\* as unmatched, never with the response rendered from the route that is gone
C15_VanishedRouteUnmatched ==
    [][\A r \in 1..MaxLoopRequests :
          (AnsweredNow(r) /\ inflight[r].match.kind = "found"
                          /\ ~RouteStillThere(mockConfigs, inflight[r]))
             => inflight'[r].answer.kind = "notfound"]_vars

\* every version a route of the registry goes through: as registered, and
\* after PUT replaced its response
RouteVersions(id) ==
    LET registered == {route \in {SlowRoute, FastRoute, NumberRoute} : route.id = id}
    IN registered \cup {updates @@ route : updates \in ResponseUpdates, route \in registered}

\* what the caller of request req gets when its response is made of the
\* version v of the route alone
MadeOf(v, req) ==
    LET response == generateResponse(v, req.match.params,
                        [body |-> Undefined, headers |-> Obj(<<>>)],
                        CHOOSE picks \in Picks : TRUE)
    IN /\ req.answer.status = response.status
       /\ req.answer.headers = response.headers
       /\ req.answer.body = response.body
       /\ req.due - req.setAt = response.delay

\* C16: whatever is interleaved with a matched request, the status, the
\* headers, the body and the delay of its response all come from one version
\* of its route, the one before an update or the one after it
C16_ResponseOfOneVersion ==
    \A r \in 1..Len(inflight) :
        (inflight[r].phase = "answered" /\ inflight[r].answer.kind = "rendered")
           => \E v \in RouteVersions(inflight[r].route.id) : MadeOf(v, inflight[r])

\* the first request was resolved before the route was updated and answered
\* after the second one was rendered from the updated route
C16_Witness ==
    /\ Len(inflight) = 2
    /\ inflight[1].phase = "answered" /\ inflight[2].phase = "answered"
    /\ inflight[1].route.id = SlowRoute.id /\ inflight[2].route.id = SlowRoute.id
    /\ MadeOf(SlowRoute, inflight[1])
    /\ MadeOf([response |-> NewResponse] @@ SlowRoute, inflight[2])
    /\ inflight[1].at > inflight[2].setAt

\* some response waits for its delay
DelayPending == \E r \in 1..Len(inflight) : inflight[r].phase = "timer"

\* nothing of the loop is held back: a further request is accepted, the
\* next job runs, and every timer that is due fires
LoopGoesOn ==
    /\ (jobs = <<>> /\ Len(inflight) < MaxLoopRequests) => ENABLED ReceiveRequest
    /\ jobs # <<>> => ENABLED RunJob
    /\ \A q \in 1..Len(inflight) :
          (jobs = <<>> /\ inflight[q].phase = "timer" /\ inflight[q].due <= now)
             => ENABLED Deliver(q)

OnMatchedPath(req) ==
    /\ req.match.kind = "found"
    /\ req.answer.kind = "rendered"

\* request req went received, unmatched, delivered(404)
OnUnmatchedPath(req) ==
    /\ req.match.kind = "null"
    /\ req.answer.kind = "notfound"
    /\ req.answer.status = 404

\* C18: every request the catch-all accepted is answered on one of the two
\* paths received, matched, rendered, delivered and received, unmatched,
\* delivered(404), and a rendered response goes only to a matched request
C18_OneOfTwoPaths ==
    \A r \in 1..Len(inflight) :
        inflight[r].phase = "answered"
           => (OnMatchedPath(inflight[r]) \/ OnUnmatchedPath(inflight[r]))

\* in a list of log entries, an entry stands before another exactly when
\* its request arrived later
MostRecentFirst(entries) ==
    \A i, j \in 1..Len(entries) : (i < j) <=> (entries[i].req > entries[j].req)

\* every request that got past loadFaker has its entry, and only those
AllLogged ==
    {requestLogs[i].req : i \in 1..Len(requestLogs)}
        = {r \in 1..Len(inflight) : inflight[r].phase # "awaitLoad"}

-----------------------------------------------------------------------------
(* Reference notions for the matchRoute claims, stated on segments.        *)

IsWildcardSeg(seg) == seg = <<"*">> \/ seg = <<"*", "*">>
IsParamSeg(seg) == seg # <<>> /\ seg[1] = ":"

\* the segments the call's pattern and (base-stripped) path split into
CallPatSegs == Segments(call.routePattern)
CallUrlSegs == Segments(CleanUrl(call.url, call.baseUrl))

\* pattern segment i accepts path segment i
SegAccepts(rs, us, i) == IsParamSeg(rs[i]) \/ rs[i] = us[i]

\* the parameter object bound from pattern positions 1..n: each name maps to
\* the path segment at the last position carrying that name
BoundParams(rs, us, n) ==
    LET pos == {i \in 1..n : IsParamSeg(rs[i])}
        names == {Slice(rs[i], 1) : i \in pos}
    IN [nm \in names |->
          us[CHOOSE i \in pos : Slice(rs[i], 1) = nm
                                 /\ \A j \in pos : Slice(rs[j], 1) = nm => j <= i]]

SameParams(p, q) == DOMAIN p = DOMAIN q /\ \A nm \in DOMAIN p : p[nm] = q[nm]

\* index of the first wildcard segment, 0 when there is none
FirstWildcard(rs) ==
    IF \E i \in 1..Len(rs) : IsWildcardSeg(rs[i])
    THEN CHOOSE i \in 1..Len(rs) : IsWildcardSeg(rs[i])
                                    /\ \A j \in 1..(i - 1) : ~IsWildcardSeg(rs[j])
    ELSE 0

Returned == call.fn = "matchRoute" /\ ret # Pending

\* C3 (as claimed): for a pattern without a segment equal to * or **, the match
\* succeeds exactly when pattern and path have the same number of segments and
\* every literal segment equals the path segment at its position, and then every
\* :name is bound to the path segment at its position.
C3_LiteralParamIff ==
    (Returned /\ FirstWildcard(CallPatSegs) = 0) =>
        LET rs == CallPatSegs
            us == CallUrlSegs
            fits == Len(rs) = Len(us) /\ \A i \in 1..Len(rs) : SegAccepts(rs, us, i)
        IN /\ (ret.kind = "params") <=> fits
           /\ fits => SameParams(ret.params, BoundParams(rs, us, Len(rs)))

\* the same statement for patterns that hold no asterisk at all
C3_NoAsteriskIff ==
    (Returned /\ ~Includes(call.routePattern, "*")) =>
        LET rs == CallPatSegs
            us == CallUrlSegs
            fits == Len(rs) = Len(us) /\ \A i \in 1..Len(rs) : SegAccepts(rs, us, i)
        IN /\ (ret.kind = "params") <=> fits
           /\ fits => SameParams(ret.params, BoundParams(rs, us, Len(rs)))

\* the call's base URL is a literal prefix of its URL
BaseIsPrefix == call.baseUrl # <<>> /\ StartsWith(call.url, call.baseUrl)

\* C22: the base prefix is taken off the request path only when the path
\* begins with it as a literal string; otherwise the pattern is matched
\* against the path as it is, so a path outside the base can still match
C22_PrefixCutOnlyWhenLiteral ==
    Returned =>
        ret = matchRoute(Str(call.routePattern),
                         IF BaseIsPrefix THEN Slice(call.url, Len(call.baseUrl))
                         ELSE call.url,
                         <<>>)

\* a path that does not begin with the base prefix matched a route
C22_Witness ==
    /\ Returned
    /\ call.baseUrl # <<>>
    /\ ~StartsWith(call.url, call.baseUrl)
    /\ Segments(call.url) # <<>>
    /\ ret.kind = "params"

\* the segments before the first wildcard all accept their path segments
PrefixAccepted(rs, us, k) ==
    Len(us) >= k - 1 /\ \A i \in 1..(k - 1) : SegAccepts(rs, us, i)

\* C4 (as claimed): once the walk reaches a * or ** segment with every earlier
\* segment matched, the match succeeds with the parameters bound so far,
\* whatever follows in the path or in the pattern.
C4_WildcardAlwaysSucceeds ==
    LET rs == CallPatSegs
        us == CallUrlSegs
        k == FirstWildcard(rs)
    IN (Returned /\ k > 0 /\ PrefixAccepted(rs, us, k)) =>
           /\ ret.kind = "params"
           /\ SameParams(ret.params, BoundParams(rs, us, k - 1))

\* C4 (amended): the same, provided the path still has a segment at the
\* wildcard's position; with the path exhausted there, the match fails.
C4_WildcardSucceedsIfPathRemains ==
    LET rs == CallPatSegs
        us == CallUrlSegs
        k == FirstWildcard(rs)
    IN (Returned /\ k > 0 /\ PrefixAccepted(rs, us, k)) =>
           IF Len(us) >= k
           THEN /\ ret.kind = "params"
                /\ SameParams(ret.params, BoundParams(rs, us, k - 1))
           ELSE ret.kind = "null"

\* C4 witness: a wildcard in the middle of the pattern, reached with a
\* parameter bound, pattern segments after it and path segments left over
\* that differ from them
C4_Witness ==
    LET rs == CallPatSegs
        us == CallUrlSegs
        k == FirstWildcard(rs)
    IN /\ Returned /\ ret.kind = "params"
       /\ k = 2 /\ Len(rs) = 3 /\ Len(us) = 2
       /\ IsParamSeg(rs[1]) /\ rs[3] = <<"a">> /\ us[2] = <<"b">>

-----------------------------------------------------------------------------
(* Reference notions for the template claims, stated on the pieces a       *)
(* template string was put together from.                                  *)

Rendered == call.fn = "processTemplate" /\ ret # Pending

\* the expression of a placeholder cannot be resolved
Unresolvable(piece, context) ==
    evaluateExpression(Trim(piece.expr), context).t = "undefined"

\* what a piece must turn into: a placeholder that cannot be resolved stays
\* as it is, another placeholder becomes the string form of its value
PieceOutput(piece, context) ==
    IF ~piece.placeholder \/ Unresolvable(piece, context) THEN piece.text
    ELSE ToStr(evaluateExpression(Trim(piece.expr), context))

RECURSIVE ExpectedText(_, _)
ExpectedText(ps, context) ==
    IF ps = <<>> THEN <<>>
    ELSE PieceOutput(Head(ps), context) \o ExpectedText(Tail(ps), context)

\* C9: a placeholder whose expression cannot be resolved is left in the output
\* as written, and every other piece of the string, and every other string of
\* the tree, is still rendered.
C9_UnresolvedKeptRestRendered ==
    Rendered => ret = Tree(call.shape, ExpectedText(call.pieces, CallContext))

\* C9 witness: "{{nope.nope}}{{params.id}}" inside an object, rendered with
\* params.id = "7": the first placeholder is kept, the second replaced
C9_Witness ==
    /\ Rendered
    /\ call.shape = "object"
    /\ call.pieces = <<Hole(<<"nope", ".", "nope">>), Hole(<<"params", ".", "id">>)>>
    /\ ret.v[1][2] = Str(<<"{", "{", "nope", ".", "nope", "}", "}", "7">>)

\* some string of the value, a leaf or a key, contains {{
RECURSIVE ContainsTemplate(_)
ContainsTemplate(x) ==
    LET HasOpen(text) == \E i \in 1..(Len(text) - 1) : text[i] = "{" /\ text[i + 1] = "{"
    IN CASE x.t = "string" -> HasOpen(x.v)
         [] x.t = "array" -> \E i \in 1..Len(x.v) : ContainsTemplate(x.v[i])
         [] x.t = "object" -> \E i \in 1..Len(x.v) :
                                  HasOpen(x.v[i][1]) \/ ContainsTemplate(x.v[i][2])
         [] OTHER -> FALSE

\* some object of the value has a key __proto__
RECURSIVE HasProtoKey(_)
HasProtoKey(x) ==
    CASE x.t = "array" -> \E i \in 1..Len(x.v) : HasProtoKey(x.v[i])
      [] x.t = "object" -> \E i \in 1..Len(x.v) :
                               x.v[i][1] = <<"__proto__">> \/ HasProtoKey(x.v[i][2])
      [] OTHER -> FALSE

\* C12 (as claimed): a JSON-like value none of whose strings contains {{ is
\* rendered, in every context, to a value deep-equal to it.
C12_PlainValueUnchanged ==
    (Rendered /\ ~ContainsTemplate(call.obj)) => ret = call.obj

\* the same for the values no object of which has the key __proto__
C12_PlainValueUnchangedNoProto ==
    (Rendered /\ ~ContainsTemplate(call.obj) /\ ~HasProtoKey(call.obj)) => ret = call.obj

\* the value reached by looking up the parts one after the other as
\* properties, with no call on the way; Undefined when a part is missing
RECURSIVE PathValue(_, _, _)
PathValue(parts, i, x) ==
    IF i > Len(parts) THEN x
    ELSE IF x.t \in {"object", "array"} /\ HasProperty(x, parts[i])
    THEN PathValue(parts, i + 1, GetProperty(x, parts[i]))
    ELSE Undefined

\* the callable an expression's dotted path ends at, Undefined when it ends
\* elsewhere
TerminalCallable(expr, context) ==
    LET x == PathValue(SplitDot(Trim(expr), 1, <<>>, <<>>), 1, context)
    IN IF x.t = "function" /\ x.v.t # "raise" THEN x ELSE Undefined

\* C10 (as claimed): a placeholder whose dotted path ends at a callable is
\* replaced by the string form of what the callable returns when invoked with
\* no arguments.
C10_TerminalCallableInvoked ==
    (Rendered /\ call.shape = "string" /\ Len(call.pieces) = 1
       /\ call.pieces[1].placeholder
       /\ TerminalCallable(call.pieces[1].expr, CallContext).t = "function") =>
        ret = Str(ToStr(TerminalCallable(call.pieces[1].expr, CallContext).v))

-----------------------------------------------------------------------------
(* Reference notions for the claims about serving a request.  A state with *)
(* last.kind # "none" is the state right after a request was served:       *)
(* mockConfigs is the registry the request was resolved against.           *)

Served == last.kind # "none"

CasePairs == {{"G", "g"}, {"E", "e"}, {"T", "t"}, {"P", "p"}, {"O", "o"}, {"S", "s"}}
EqualIgnoringCase(a, b) ==
    Len(a) = Len(b) /\ \A k \in 1..Len(a) : a[k] = b[k] \/ {a[k], b[k]} \in CasePairs

\* route j of config i matches the request: the config is enabled, the methods
\* are equal ignoring case, the path matches the pattern
RouteMatches(configs, i, j, method, url) ==
    LET route == configs[i].routes[j] IN
    /\ configs[i].enabled
    /\ IsStr(route.method) /\ EqualIgnoringCase(route.method.v, method)
    /\ IsStr(route.path)
    /\ matchRoute(route.path, url, configs[i].baseUrl).kind = "params"

Pairs(configs) ==
    {p \in (1..Len(configs)) \X (1..(MaxRoutes + 1)) : p[2] <= Len(configs[p[1]].routes)}

Before(p, q) == p[1] < q[1] \/ (p[1] = q[1] /\ p[2] < q[2])

\* the sequence of ids of the configs, and of the routes of the config with an id
ConfigIds(configs) == [i \in 1..Len(configs) |-> configs[i].id]
RouteIds(configs, id) ==
    LET i == ConfigIndex(configs, id)
    IN [j \in 1..Len(configs[i].routes) |-> configs[i].routes[j].id]

\* what is in both sequences is in the same order in both, and what is new in
\* the second comes after everything kept
OrderKept(old, new) ==
    /\ \A a, b \in 1..Len(old) : \A c, d \in 1..Len(new) :
           (old[a] = new[c] /\ old[b] = new[d] /\ a < b) => c < d
    /\ \A c, d \in 1..Len(new) :
           ((\E a \in 1..Len(old) : old[a] = new[d])
              /\ ~(\E a \in 1..Len(old) : old[a] = new[c])) => d < c

\* the route a served request is answered from is the first matching one
FirstMatchReturned ==
    /\ (Served /\ last.match.kind = "found") =>
           LET hit == <<last.match.ci, last.match.ri>> IN
           /\ hit \in Pairs(mockConfigs)
           /\ RouteMatches(mockConfigs, hit[1], hit[2], last.method, last.url)
           /\ \A p \in Pairs(mockConfigs) :
                  Before(p, hit) =>
                      ~RouteMatches(mockConfigs, p[1], p[2], last.method, last.url)
    /\ (Served /\ last.match.kind = "null") =>
           \A p \in Pairs(mockConfigs) :
               ~RouteMatches(mockConfigs, p[1], p[2], last.method, last.url)

\* every step keeps the configs, and the routes of each config, it does not
\* remove in the order they had, and puts what it adds at the end
RegistryOrderKept ==
    /\ OrderKept(ConfigIds(mockConfigs), ConfigIds(mockConfigs'))
    /\ \A i \in 1..Len(mockConfigs) :
           ConfigIndex(mockConfigs', mockConfigs[i].id) # 0 =>
               OrderKept(RouteIds(mockConfigs, mockConfigs[i].id),
                         RouteIds(mockConfigs', mockConfigs[i].id))

C2_EnabledAndMethodIgnoringCase ==
    /\ (Served /\ last.match.kind = "found") =>
           LET config == mockConfigs[last.match.ci]
               route == config.routes[last.match.ri]
           IN /\ config.enabled
              /\ EqualIgnoringCase(route.method.v, last.method)
    /\ (Served /\ last.match.kind = "null") =>
           \A p \in Pairs(mockConfigs) :
               ~RouteMatches(mockConfigs, p[1], p[2], last.method, last.url)

\* C2 witness: a request with method GET answered from a route stored with
\* method get, while a disabled config and a POST route precede it
C2_Witness ==
    /\ Served /\ last.match.kind = "found"
    /\ last.method = GET
    /\ mockConfigs[last.match.ci].routes[last.match.ri].method = Str(<<"g", "e", "t">>)
    /\ \E i \in 1..Len(mockConfigs) : ~mockConfigs[i].enabled

\* C5 (as claimed): serving a request never ends in an exception: the dispatch
\* answers with the rendered response or with 404, never 500, also when a
\* route was stored without a path or with a method that is no string.
C5_NeverRaises == last.kind # "error"

\* C7: serving a request puts exactly one entry at the head of the log, in
\* front of the entries that were there (all of them, or the latest 999 when
\* the log was full), and adds one to totalRequests, also
\* when resolving then fails; the entry's matched flag is true exactly when
\* resolve returned a route, and matchedRequests grows by one exactly then.
C7_LoggedAndCounted ==
    [][last'.kind # "none" =>
         LET found == findMatchingRoute(mockConfigs, last'.method, last'.url).kind = "found"
             kept == IF Len(requestLogs) < LogCap THEN Len(requestLogs) ELSE LogCap - 1
         IN /\ Len(requestLogs') = kept + 1
            /\ Tail(requestLogs') = SubSeq(requestLogs, 1, kept)
            /\ Head(requestLogs').method = last'.method
            /\ Head(requestLogs').url = last'.url
            /\ Head(requestLogs').matched = found
            /\ statistics'.totalRequests = statistics.totalRequests + 1
            /\ statistics'.matchedRequests =
                   statistics.matchedRequests + (IF found THEN 1 ELSE 0)
            /\ (last'.kind = "rendered") = found]_vars

\* C7 witness: a matched request logged in front of an unmatched one
C7_Witness ==
    /\ Served /\ last.kind = "rendered"
    /\ Len(requestLogs) = 2
    /\ requestLogs[1].matched /\ ~requestLogs[2].matched
    /\ statistics.totalRequests = 2 /\ statistics.matchedRequests = 1

\* C8 (as claimed): when no route of an enabled config matches the request's
\* method and path, the request is answered 404 with a payload naming the path
\* and the method; nothing is rendered, nothing is raised.
C8_NoMatchAnswers404 ==
    (Served /\ \A p \in Pairs(mockConfigs) :
                   ~RouteMatches(mockConfigs, p[1], p[2], last.method, last.url)) =>
        /\ last.kind = "notfound"
        /\ last.response.status = 404
        /\ last.response.body = [path |-> last.url, method |-> last.method]

C13_FailedImportChangesNothing ==
    [][(returned'.op = "importMockConfigs" /\ returned'.result = "failure") =>
          (store' = store /\ routeLists' = routeLists /\ statistics' = statistics)]_vars

\* the routes of the i-th config of a store
RoutesOf(st, lists, i) == IF st[i].routes = 0 THEN <<>> ELSE lists[st[i].routes].items

\* no two configs refer to the same route array
NoSharedRouteList ==
    \A i, j \in 1..Len(store) :
        (i # j /\ store[i].routes # 0) => store[i].routes # store[j].routes

\* adding, updating or deleting a route of one config leaves the routes of
\* every other config as they were
OtherRoutesKept ==
    returned'.op \in {"addRoute", "updateRoute", "deleteRoute"} =>
        \A i \in 1..Len(store) :
            store[i].id # returned'.configId =>
                RoutesOf(store', routeLists', i) = RoutesOf(store, routeLists, i)

\* C14 (as claimed): in every reachable state no route array is shared between
\* two configs, configs made by importing an export included, and a route
\* operation on one config never changes the routes of another.
C14_RoutesOwnedByOneConfig == []NoSharedRouteList /\ [][OtherRoutesKept]_vars

\* the step is a mutation of a config or of its routes that succeeded
MutationDone ==
    /\ returned'.op \in {"updateMockConfig", "addRoute", "updateRoute", "deleteRoute"}
    /\ returned'.result = "ok"

\* the routes the mutation neither added nor removed stand as they stood:
\* addRoute appends, updateRoute replaces in place, deleteRoute takes the
\* target out, updateMockConfig leaves the list alone
RouteOrderStable ==
    LET r == returned'
        i == ConfigIndex(store, r.configId)
        before == RoutesOf(store, routeLists, i)
        after == RoutesOf(store', routeLists', i)
    IN CASE r.op = "addRoute" ->
              /\ Len(after) = Len(before) + 1
              /\ SubSeq(after, 1, Len(before)) = before
              /\ after[Len(after)].id = r.routeId
         [] r.op = "updateRoute" ->
              /\ Len(after) = Len(before)
              /\ \A k \in 1..Len(before) :
                    /\ after[k].id = before[k].id
                    /\ before[k].id # r.routeId => after[k] = before[k]
         [] r.op = "deleteRoute" ->
              \E j \in 1..Len(before) :
                  before[j].id = r.routeId /\ after = RemoveAt(before, j)
         [] OTHER -> after = before

\* the config the mutation named has its updatedAt set anew
OwnerRefreshed ==
    LET i == ConfigIndex(store, returned'.configId)
    IN /\ store'[i].id = store[i].id
       /\ store'[i].updatedAt = clock'
       /\ store'[i].updatedAt > store[i].updatedAt

\* the routes of every other config are what they were
OthersUntouched ==
    \A m \in 1..Len(store) :
        store[m].id # returned'.configId =>
            RoutesOf(store', routeLists', m) = RoutesOf(store, routeLists, m)

\* C21 (as claimed): every mutation that succeeds refreshes updatedAt of the
\* config it names, keeps the order of the routes it neither adds nor
\* removes, and changes the routes of no other config
C21_MutationKeepsOrder ==
    [][MutationDone => (OwnerRefreshed /\ RouteOrderStable /\ OthersUntouched)]_vars

\* the same while no route array is shared
C21_MutationKeepsOrderUnshared ==
    [][(MutationDone /\ NoSharedRouteList)
          => (OwnerRefreshed /\ RouteOrderStable /\ OthersUntouched)]_vars

\* the sum of the lengths of the route arrays of all configs
RECURSIVE RouteTotal(_, _, _)
RouteTotal(st, lists, i) ==
    IF i > Len(st) THEN 0
    ELSE Len(RoutesOf(st, lists, i)) + RouteTotal(st, lists, i + 1)

\* the statistics say what the registry holds
StatisticsAgree(stats, st, lists) ==
    /\ stats.totalConfigs = Len(st)
    /\ stats.enabledConfigs = Cardinality({i \in 1..Len(st) : st[i].enabled})
    /\ stats.totalRoutes = RouteTotal(st, lists, 1)

\* the step is a management operation that returned to its caller
ManagementReturned ==
    /\ returned'.op \in {"createMockConfig", "updateMockConfig", "deleteMockConfig",
                         "addRoute", "updateRoute", "deleteRoute", "importMockConfigs"}
    /\ returned'.result # "threw"

\* C25 (as claimed): after every management operation that returns, the
\* statistics agree with the registry: totalConfigs is the number of
\* configs, enabledConfigs the number of enabled ones, totalRoutes the sum
\* of the lengths of all route lists
C25_StatisticsAgree ==
    [][ManagementReturned => StatisticsAgree(statistics', store', routeLists')]_vars

\* the same while every config has a routes array, before and after
C25_StatisticsAgreeWithRoutes ==
    [][(/\ ManagementReturned
        /\ \A i \in 1..Len(store) : store[i].routes # 0
        /\ \A i \in 1..Len(store') : store'[i].routes # 0)
          => StatisticsAgree(statistics', store', routeLists')]_vars

\* the call whose answer is returned' named a config id the store does not
\* hold, or (updateRoute, deleteRoute) a route id its config does not hold
NamedUnknownId ==
    LET r == returned'
        i == ConfigIndex(store, r.configId)
    IN /\ r.op \in {"updateMockConfig", "deleteMockConfig", "addRoute",
                    "updateRoute", "deleteRoute"}
       /\ \/ i = 0
          \/ /\ r.op \in {"updateRoute", "deleteRoute"}
             /\ RouteIndex(RoutesOf(store, routeLists, i), r.routeId) = 0

NotFoundAndUntouched ==
    /\ returned'.result \in {"null", "false"}
    /\ returned'.status = 404
    /\ store' = store /\ routeLists' = routeLists /\ statistics' = statistics

\* C20 (as claimed): a management operation that names an unknown config id
\* or route id returns null or false, is answered 404, and leaves every
\* config, every route array, every updatedAt and the statistics unchanged.
C20_UnknownIdNotFound == [][NamedUnknownId => NotFoundAndUntouched]_vars

\* the same while every config of the store has a routes array
C20_UnknownIdNotFoundWithRoutes ==
    [][(NamedUnknownId /\ \A i \in 1..Len(store) : store[i].routes # 0)
          => NotFoundAndUntouched]_vars

\* C6: the log never holds more than 1000 entries; it holds the latest
\* min(n, 1000) of the n requests served since the log was last cleared,
\* newest first.
C6_LogBoundedFifo ==
    /\ Len(requestLogs) <= LogCap
    /\ Len(requestLogs) = IF statistics.totalRequests < LogCap
                          THEN statistics.totalRequests ELSE LogCap
    /\ \A i \in 1..Len(requestLogs) :
           requestLogs[i].n = statistics.totalRequests - i + 1

\* C6 witness: after 1002 requests the log holds requests 1002 down to 3
C6_Witness ==
    /\ statistics.totalRequests = LogCap + 2
    /\ Len(requestLogs) = LogCap
    /\ requestLogs[LogCap].n = 3

-----------------------------------------------------------------------------
(* createRateLimiter(windowMs, max), src/unnamed/part_001 lines 165-200.   *)
(* limiter.requests is the Map of the closure, a function from the keys it *)
(* holds to the times it keeps for them; limiter.passed keeps, for every   *)
(* key, the times at which next() was called, and limiter.answer what the  *)
(* middleware did with the last request.  now is Date.now().               *)

WindowMs == 2           \* the windowMs the limiter was created with
MaxPerWindow == 2       \* the max it was created with
MaxLimiterTime == 5     \* the last millisecond looked at

NoUser == "none"
\* the requests that reach the middleware: with req.user or without, from
\* one address
LimitedRequests == {[user |-> "user-1", ip |-> "10.0.0.1"],
                    [user |-> NoUser, ip |-> "10.0.0.1"]}

\* line 169
LimiterKey(req) == IF req.user # NoUser THEN req.user ELSE req.ip
LimiterKeys == {LimiterKey(req) : req \in LimitedRequests}

\* requests.get(key) after lines 174-176
TimesOf(requests, key) == IF key \in DOMAIN requests THEN requests[key] ELSE <<>>

\* line 181: userRequests.filter(time => time > windowStart)
ValidRequests(userRequests, windowStart) ==
    LET Later(time) == time > windowStart IN SelectSeq(userRequests, Later)

\* the test with > where the code has >=
LimitExceededAboveMax(validRequests, max) == Len(validRequests) > max

\* line 185
LimitExceeded(validRequests, max) == Len(validRequests) >= max

InitLimiter ==
    /\ mockConfigs = <<>>
    /\ requestLogs = <<>>
    /\ statistics = [totalRequests |-> 0, matchedRequests |-> 0, totalConfigs |-> 0,
                     enabledConfigs |-> 0, totalRoutes |-> 0]
    /\ last = NoRequest
    /\ call = Idle
    /\ ret = Pending
    /\ LoopIdle /\ HeapIdle
    /\ limiter = [requests |-> <<>>, passed |-> [key \in LimiterKeys |-> <<>>],
                  answer |-> [key |-> "none", status |-> 0]]
    /\ webSocketService = <<>> /\ teamService = <<>> /\ themeService = <<>>
    /\ users = <<>>

\* the middleware, lines 168-198
RateLimit ==
    /\ \E req \in LimitedRequests :
         LET key == LimiterKey(req)
             windowStart == now - WindowMs
             validRequests == ValidRequests(TimesOf(limiter.requests, key), windowStart)
         IN IF LimitExceeded(validRequests, MaxPerWindow)
            THEN limiter' = [limiter EXCEPT
                     !.requests = (key :> validRequests) @@ @,
                     !.answer = [key |-> key, status |-> 429]]
            ELSE limiter' = [limiter EXCEPT
                     !.requests = (key :> Append(validRequests, now)) @@ @,
                     !.passed[key] = Append(@, now),
                     !.answer = [key |-> key, status |-> 200]]
    /\ UNCHANGED <<mockConfigs, requestLogs, statistics, last, call, ret, loopVars,
                   heapVars, webSocketService, teamService, themeService, users>>

\* a millisecond passes
LimiterTick ==
    /\ now < MaxLimiterTime
    /\ now' = now + 1
    /\ UNCHANGED <<mockConfigs, requestLogs, statistics, last, call, ret, inflight,
                   jobs, fakerLoaded, heapVars, serviceVars>>

NextLimiter == RateLimit \/ LimiterTick

SpecLimiter == InitLimiter /\ [][NextLimiter]_vars


\* the number of requests of a key passed on in the window (start, start + WindowMs]
PassedIn(key, start) ==
    Cardinality({i \in 1..Len(limiter.passed[key]) :
                    /\ limiter.passed[key][i] > start
                    /\ limiter.passed[key][i] <= start + WindowMs})

\* in no window of WindowMs milliseconds more than MaxPerWindow requests of
\* one key were passed on
AtMostMaxPerWindow ==
    \A key \in LimiterKeys : \A start \in (0 - WindowMs)..MaxLimiterTime :
        PassedIn(key, start) <= MaxPerWindow

\* a request of the key made at time t would be rejected, by the Map given
WouldReject(requests, key, t) ==
    LimitExceeded(ValidRequests(TimesOf(requests, key), t - WindowMs), MaxPerWindow)

\* the step rejected a request: no time was recorded for its key, and the
\* key is limited afterwards at the very times at which it was before
RejectedLeavesNoTrace ==
    limiter'.answer.status = 429 /\ limiter' # limiter =>
        LET key == limiter'.answer.key IN
        /\ limiter'.passed = limiter.passed
        /\ ~(now \in {TimesOf(limiter'.requests, key)[i] :
                         i \in 1..Len(TimesOf(limiter'.requests, key))}
             \ {TimesOf(limiter.requests, key)[i] :
                         i \in 1..Len(TimesOf(limiter.requests, key))})
        /\ \A t \in now..(MaxLimiterTime + WindowMs) :
              WouldReject(limiter'.requests, key, t) <=> WouldReject(limiter.requests, key, t)

\* a request leaves what is kept for every other key as it was
OtherKeysKept ==
    \A key \in LimiterKeys :
        key # limiter'.answer.key =>
            /\ TimesOf(limiter'.requests, key) = TimesOf(limiter.requests, key)
            /\ limiter'.passed[key] = limiter.passed[key]

\* C26: at most max requests of one key are passed on within any window of
\* windowMs milliseconds; a rejected request is not recorded and does not
\* prolong the time its key stays limited; requests with different keys do
\* not affect each other
C26_AtMostMaxPerWindow ==
    []AtMostMaxPerWindow /\ [][RejectedLeavesNoTrace /\ OtherKeysKept]_vars

\* one key is at its limit and was just rejected while the other key, from
\* the same address, was passed on within the same window
C26_Witness ==
    /\ limiter.answer = [key |-> "user-1", status |-> 429]
    /\ Len(limiter.passed["user-1"]) = MaxPerWindow
    /\ Len(limiter.passed["10.0.0.1"]) >= 1
    /\ limiter.passed["10.0.0.1"][Len(limiter.passed["10.0.0.1"])] = now

-----------------------------------------------------------------------------
\* WebSocketService, src/unnamed/part_001 lines 1182-1651.
\*
\* webSocketService.connections, .messageHistory and .connectionStats are the
\* three Maps of the service.  .ws holds the readyState of every socket that
\* createConnection opened: the socket and the handlers registered on it live
\* on after the service forgot the connection.  .deleted are the ids for which
\* deleteConnection returned success, .ran the handler or method that ran
\* last.  Of a message history its length is kept, of the statistics the
\* number of errors.

HistoryCap == 1000
MaxConnections == 1

ConnectionIds == 1..MaxConnections

NoMessages == [length |-> 0]

\* addMessage(connectionId, message), lines 1438-1451
addMessage(messageHistory, connectionId) ==
    LET messages == IF connectionId \in DOMAIN messageHistory
                    THEN messageHistory[connectionId] ELSE NoMessages
        pushed == messages.length + 1
    IN (connectionId :> [length |-> IF pushed > HistoryCap THEN HistoryCap ELSE pushed])
           @@ messageHistory

\* connectionData.status = status, on the object the handlers closed over;
\* the Map shows it as long as it holds the object
SetStatus(connections, connectionId, status) ==
    IF connectionId \in DOMAIN connections
    THEN [connections EXCEPT ![connectionId] = status]
    ELSE connections

Without(map, key) == [k \in DOMAIN map \ {key} |-> map[k]]

SocketOnly == <<mockConfigs, requestLogs, statistics, last, call, ret, loopVars,
                heapVars, limiter, teamService, themeService, users>>

InitSocket ==
    /\ mockConfigs = <<>>
    /\ requestLogs = <<>>
    /\ statistics = [totalRequests |-> 0, matchedRequests |-> 0, totalConfigs |-> 0,
                     enabledConfigs |-> 0, totalRoutes |-> 0]
    /\ last = NoRequest
    /\ call = Idle
    /\ ret = Pending
    /\ LoopIdle /\ HeapIdle
    /\ webSocketService = [connections |-> <<>>, messageHistory |-> <<>>,
                           connectionStats |-> <<>>, ws |-> <<>>, deleted |-> {},
                           ran |-> "constructor"]
    /\ limiter = <<>> /\ teamService = <<>> /\ themeService = <<>>
    /\ users = <<>>

\* createConnection(config), lines 1190-1240; the id is a fresh uuid
createConnection ==
    /\ \E connectionId \in ConnectionIds :
         /\ connectionId \notin DOMAIN webSocketService.ws
         /\ \A other \in ConnectionIds :
                other < connectionId => other \in DOMAIN webSocketService.ws
         /\ webSocketService' = [webSocketService EXCEPT
                !.ran = "createConnection",
                !.connections = (connectionId :> "connecting") @@ @,
                !.messageHistory = (connectionId :> NoMessages) @@ @,
                !.connectionStats = (connectionId :> [errors |-> 0]) @@ @,
                !.ws = (connectionId :> "CONNECTING") @@ @]
    /\ UNCHANGED SocketOnly

\* ws.on('open'), lines 1246-1255
SocketOpen ==
    /\ \E connectionId \in DOMAIN webSocketService.ws :
         /\ webSocketService.ws[connectionId] = "CONNECTING"
         /\ webSocketService' = [webSocketService EXCEPT
                !.ran = "open",
                !.ws[connectionId] = "OPEN",
                !.connections = SetStatus(@, connectionId, "connected"),
                !.messageHistory = addMessage(@, connectionId)]
    /\ UNCHANGED SocketOnly

\* a frame of the peer arrives: ws.on('message'), lines 1257-1284,
\* ws.on('ping'), lines 1315-1322, ws.on('pong'), lines 1324-1331
SocketFrame(event) ==
    /\ \E connectionId \in DOMAIN webSocketService.ws :
         /\ webSocketService.ws[connectionId] \in {"OPEN", "CLOSING"}
         /\ webSocketService' = [webSocketService EXCEPT
                !.ran = event,
                !.messageHistory = addMessage(@, connectionId)]
    /\ UNCHANGED SocketOnly

SocketMessage == SocketFrame("message")
SocketPing == SocketFrame("ping")
SocketPong == SocketFrame("pong")

\* ws.on('error'), lines 1286-1300; the socket closes after an error
SocketError ==
    /\ \E connectionId \in DOMAIN webSocketService.ws :
         /\ webSocketService.ws[connectionId] \in {"CONNECTING", "OPEN"}
         /\ webSocketService' = [webSocketService EXCEPT
                !.ran = "error",
                !.ws[connectionId] = "CLOSING",
                !.connections = SetStatus(@, connectionId, "error"),
                !.connectionStats =
                    IF connectionId \in DOMAIN @
                    THEN [@ EXCEPT ![connectionId].errors = @ + 1] ELSE @,
                !.messageHistory = addMessage(@, connectionId)]
    /\ UNCHANGED SocketOnly

\* ws.on('close'), lines 1302-1313: closed by the peer or after close()
SocketClose ==
    /\ \E connectionId \in DOMAIN webSocketService.ws :
         /\ webSocketService.ws[connectionId] \in {"OPEN", "CLOSING"}
         /\ webSocketService' = [webSocketService EXCEPT
                !.ran = "close",
                !.ws[connectionId] = "CLOSED",
                !.connections = SetStatus(@, connectionId, "closed"),
                !.messageHistory = addMessage(@, connectionId)]
    /\ UNCHANGED SocketOnly

\* sendMessage(connectionId, message, messageType), lines 1336-1378, where
\* it reaches the socket: the connection is known and its status 'connected'
sendMessage ==
    /\ \E connectionId \in DOMAIN webSocketService.connections :
         /\ webSocketService.connections[connectionId] = "connected"
         /\ webSocketService' = [webSocketService EXCEPT
                !.ran = "sendMessage",
                !.messageHistory = addMessage(@, connectionId)]
    /\ UNCHANGED SocketOnly

\* closeConnection(connectionId), lines 1381-1395
closeConnection ==
    /\ \E connectionId \in DOMAIN webSocketService.connections :
         /\ webSocketService.ws[connectionId] = "OPEN"
         /\ webSocketService' = [webSocketService EXCEPT
                !.ran = "closeConnection",
                !.ws[connectionId] = "CLOSING"]
    /\ UNCHANGED SocketOnly

\* clearMessageHistory(connectionId), lines 1454-1457, of a connection the
\* service created
clearMessageHistory ==
    /\ \E connectionId \in DOMAIN webSocketService.ws :
         webSocketService' = [webSocketService EXCEPT
             !.ran = "clearMessageHistory",
             !.messageHistory = (connectionId :> NoMessages) @@ @]
    /\ UNCHANGED SocketOnly

\* deleteConnection(connectionId), lines 1460-1477, where it succeeds
deleteConnection ==
    /\ \E connectionId \in DOMAIN webSocketService.connections :
         webSocketService' = [webSocketService EXCEPT
             !.ran = "deleteConnection",
             !.ws[connectionId] = IF @ = "OPEN" THEN "CLOSING" ELSE @,
             !.connections = Without(@, connectionId),
             !.messageHistory = Without(@, connectionId),
             !.connectionStats = Without(@, connectionId),
             !.deleted = @ \cup {connectionId}]
    /\ UNCHANGED SocketOnly

\* cleanup(), lines 1639-1649: the message history is kept
cleanup ==
    /\ LET closed == {connectionId \in DOMAIN webSocketService.connections :
                         \/ webSocketService.connections[connectionId] = "closed"
                         \/ webSocketService.ws[connectionId] = "CLOSED"}
       IN /\ closed # {}
          /\ webSocketService' = [webSocketService EXCEPT
                !.ran = "cleanup",
                 !.connections = [k \in DOMAIN @ \ closed |-> @[k]]]
    /\ UNCHANGED SocketOnly

NextSocket ==
    \/ createConnection
    \/ SocketOpen
    \/ SocketMessage
    \/ SocketPing
    \/ SocketPong
    \/ SocketError
    \/ SocketClose
    \/ sendMessage
    \/ closeConnection
    \/ clearMessageHistory
    \/ deleteConnection
    \/ cleanup

SpecSocket == InitSocket /\ [][NextSocket]_vars


\* the three Maps of the service hold nothing for the connection
Forgotten(connectionId) ==
    /\ connectionId \notin DOMAIN webSocketService.connections
    /\ connectionId \notin DOMAIN webSocketService.messageHistory
    /\ connectionId \notin DOMAIN webSocketService.connectionStats

SocketEvents == {"open", "message", "error", "close", "ping", "pong"}

\* a handler of a socket ran
SocketEventFired ==
    webSocketService' # webSocketService /\ webSocketService'.ran \in SocketEvents

\* no connection has more than HistoryCap entries in its message history
HistoryCapped ==
    \A connectionId \in DOMAIN webSocketService.connections :
        connectionId \in DOMAIN webSocketService.messageHistory =>
            webSocketService.messageHistory[connectionId].length <= HistoryCap

\* C27: after deleteConnection(id) succeeded the service holds no connection,
\* no statistics and no message history for id, and an event that the socket
\* of a deleted connection fires later leaves it so; the message history of a
\* connection never has more than 1000 entries
C27_DeletedStaysForgotten ==
    /\ []HistoryCapped
    /\ [][/\ (webSocketService'.ran = "deleteConnection" =>
                (\A deletedId \in webSocketService'.deleted \ webSocketService.deleted :
                     Forgotten(deletedId)'))
           /\ (SocketEventFired =>
                (\A deletedId \in webSocketService.deleted :
                     Forgotten(deletedId) => Forgotten(deletedId)'))]_vars

-----------------------------------------------------------------------------
\* TeamService, src/services/mockServerService.js lines 613-1291.
\*
\* teamService.teams, .teamMembers, .userTeams and .invitations are the Maps
\* of the service; .teamsCreated counts the teams createTeam made, whose ids
\* are never used again; .ran is the method that ran last, the user it was
\* about and the error it threw.  Every method runs to its end before the next
\* request is served: its awaits are of its own async methods only.

MaxTeams == 1
MaxInvitations == 1
MaxMembers == 1

TeamUsers == {"admin", "u1"}

TeamIds == {"default"} \cup {ToString(n) : n \in 1..MaxTeams}

\* settings.maxMembers of the default team is undefined
NoMaxMembers == 0

IndexOf(seq, x) == CHOOSE i \in 1..Len(seq) : seq[i] = x /\ \A j \in 1..(i - 1) : seq[j] # x

Filter(seq, x) == SelectSeq(seq, LAMBDA y : y # x)

\* this.teamMembers.get(teamId) || []
MembersOf(service, teamId) ==
    IF teamId \in DOMAIN service.teamMembers THEN service.teamMembers[teamId] ELSE <<>>

\* this.userTeams.get(userId) || []
TeamsOf(service, userId) ==
    IF userId \in DOMAIN service.userTeams THEN service.userTeams[userId] ELSE <<>>

\* getUserTeamRole(userId, teamId), lines 1034-1053
getUserTeamRole(service, userId, teamId) ==
    IF teamId \notin DOMAIN service.teams THEN "null"
    ELSE IF service.teams[teamId].ownerId = userId THEN "owner"
    ELSE IF Includes(MembersOf(service, teamId), userId)
         THEN IF IndexOf(MembersOf(service, teamId), userId) - 1 < 2 THEN "admin" ELSE "member"
    ELSE "null"

\* hasTeamPermission(userId, teamId, 'admin'), lines 1055-1069
hasTeamPermission(service, userId, teamId) ==
    getUserTeamRole(service, userId, teamId) \in {"owner", "admin"}

\* members.length >= team.settings.maxMembers, line 885: false when
\* maxMembers is undefined
AtCapacity(members, maxMembers) ==
    maxMembers # NoMaxMembers /\ Len(members) >= maxMembers

\* what stops addTeamMember(teamId, userId, addedBy), lines 868-887
AddMemberError(service, teamId, userId, addedBy) ==
    IF teamId \notin DOMAIN service.teams THEN "Team not found"
    ELSE IF ~hasTeamPermission(service, addedBy, teamId) THEN "Insufficient permissions"
    ELSE IF Includes(MembersOf(service, teamId), userId) THEN "User is already a team member"
    ELSE IF AtCapacity(MembersOf(service, teamId), service.teams[teamId].maxMembers)
         THEN "Team has reached maximum member capacity"
    ELSE "none"

\* the Maps after addTeamMember(teamId, userId, addedBy), lines 867-907
MemberAdded(service, teamId, userId) ==
    [service EXCEPT
        !.teamMembers = (teamId :> Append(MembersOf(service, teamId), userId)) @@ @,
        !.userTeams = (userId :> Append(TeamsOf(service, userId), teamId)) @@ @]

Ran(op, userId, error) == [op |-> op, userId |-> userId, error |-> error]

TeamOnly == <<mockConfigs, requestLogs, statistics, last, call, ret, loopVars,
              heapVars, limiter, webSocketService, themeService, users>>

\* the constructor and initializeDefaultUser, lines 614-662
InitTeam ==
    /\ mockConfigs = <<>>
    /\ requestLogs = <<>>
    /\ statistics = [totalRequests |-> 0, matchedRequests |-> 0, totalConfigs |-> 0,
                     enabledConfigs |-> 0, totalRoutes |-> 0]
    /\ last = NoRequest
    /\ call = Idle
    /\ ret = Pending
    /\ LoopIdle /\ HeapIdle
    /\ teamService = [teams |-> ("default" :> [ownerId |-> "admin", maxMembers |-> NoMaxMembers]),
                      teamMembers |-> ("default" :> <<"admin">>),
                      userTeams |-> ("admin" :> <<"default">>),
                      invitations |-> <<>>,
                      teamsCreated |-> 0,
                      ran |-> Ran("constructor", "admin", "none")]
    /\ limiter = <<>> /\ webSocketService = <<>> /\ themeService = <<>>
    /\ users = <<>>

\* createTeam(teamData, ownerId), lines 765-791
createTeam ==
    /\ teamService.teamsCreated < MaxTeams
    /\ \E ownerId \in TeamUsers :
         LET teamId == ToString(teamService.teamsCreated + 1) IN
         teamService' = [teamService EXCEPT
             !.teams = (teamId :> [ownerId |-> ownerId, maxMembers |-> MaxMembers]) @@ @,
             !.teamMembers = (teamId :> <<ownerId>>) @@ @,
             !.userTeams = (ownerId :> Append(TeamsOf(teamService, ownerId), teamId)) @@ @,
             !.teamsCreated = @ + 1,
             !.ran = Ran("createTeam", ownerId, "none")]
    /\ UNCHANGED TeamOnly

\* deleteTeam(teamId, userId), lines 822-843
deleteTeam ==
    /\ \E teamId \in TeamIds, userId \in TeamUsers :
         LET error == IF teamId \notin DOMAIN teamService.teams THEN "Team not found"
                      ELSE IF teamService.teams[teamId].ownerId # userId
                           THEN "Only team owner can delete team"
                      ELSE "none"
             members == MembersOf(teamService, teamId)
         IN teamService' =
              IF error # "none"
              THEN [teamService EXCEPT !.ran = Ran("deleteTeam", userId, error)]
              ELSE [teamService EXCEPT
                       !.userTeams = [u \in DOMAIN @ \cup {members[i] : i \in 1..Len(members)} |->
                                         IF Includes(members, u)
                                         THEN Filter(TeamsOf(teamService, u), teamId)
                                         ELSE @[u]],
                       !.teams = Without(@, teamId),
                       !.teamMembers = Without(@, teamId),
                       !.ran = Ran("deleteTeam", userId, "none")]
    /\ UNCHANGED TeamOnly

\* addTeamMember(teamId, userId, addedBy), lines 867-907
addTeamMember ==
    /\ \E teamId \in TeamIds, userId \in TeamUsers, addedBy \in TeamUsers :
         LET error == AddMemberError(teamService, teamId, userId, addedBy) IN
         teamService' =
            [(IF error = "none" THEN MemberAdded(teamService, teamId, userId) ELSE teamService)
                EXCEPT !.ran = Ran("addTeamMember", userId, error)]
    /\ UNCHANGED TeamOnly

\* removeTeamMember(teamId, userId, removedBy), lines 909-944
removeTeamMember ==
    /\ \E teamId \in TeamIds, userId \in TeamUsers, removedBy \in TeamUsers :
         LET error ==
                IF teamId \notin DOMAIN teamService.teams THEN "Team not found"
                ELSE IF userId # removedBy /\ ~hasTeamPermission(teamService, removedBy, teamId)
                     THEN "Insufficient permissions"
                ELSE IF teamService.teams[teamId].ownerId = userId /\ userId # removedBy
                     THEN "Cannot remove team owner"
                ELSE "none"
         IN teamService' =
              IF error # "none"
              THEN [teamService EXCEPT
                       !.ran = Ran("removeTeamMember", userId, error)]
              ELSE [teamService EXCEPT
                       !.teamMembers = (teamId :> Filter(MembersOf(teamService, teamId), userId)) @@ @,
                       !.userTeams = (userId :> Filter(TeamsOf(teamService, userId), teamId)) @@ @,
                       !.ran = Ran("removeTeamMember", userId, "none")]
    /\ UNCHANGED TeamOnly

\* createInvitation(teamId, email, invitedBy), lines 947-972
createInvitation ==
    /\ Len(teamService.invitations) < MaxInvitations
    /\ \E teamId \in TeamIds, invitedBy \in TeamUsers :
         LET error == IF teamId \notin DOMAIN teamService.teams THEN "Team not found"
                      ELSE IF ~hasTeamPermission(teamService, invitedBy, teamId)
                           THEN "Insufficient permissions"
                      ELSE "none"
         IN teamService' =
              IF error # "none"
              THEN [teamService EXCEPT
                       !.ran = Ran("createInvitation", invitedBy, error)]
              ELSE [teamService EXCEPT
                       !.invitations = Append(@, [teamId |-> teamId, invitedBy |-> invitedBy,
                                                  status |-> "pending", expired |-> FALSE]),
                       !.ran = Ran("createInvitation", invitedBy, "none")]
    /\ UNCHANGED TeamOnly

\* seven days pass: new Date(invitation.expiresAt) < new Date(), line 1018
InvitationExpires ==
    /\ \E invitationId \in 1..Len(teamService.invitations) :
         /\ ~teamService.invitations[invitationId].expired
         /\ teamService' = [teamService EXCEPT
                !.invitations[invitationId].expired = TRUE,
                !.ran = Ran("expires", @.userId, "none")]
    /\ UNCHANGED TeamOnly

\* what stops respondToInvitation before it changes the invitation, lines
\* 1009-1020
RespondError(service, invitationId) ==
    IF invitationId \notin 1..Len(service.invitations) THEN "Invitation not found"
    ELSE IF service.invitations[invitationId].status # "pending"
         THEN "Invitation already responded to"
    ELSE IF service.invitations[invitationId].expired THEN "Invitation has expired"
    ELSE "none"

\* respondToInvitation(invitationId, response, userId), lines 1008-1031
respondToInvitation ==
    /\ \E invitationId \in 1..MaxInvitations, response \in {"accepted", "declined"},
          userId \in TeamUsers :
         LET refused == RespondError(teamService, invitationId) IN
         IF refused # "none"
         THEN teamService' = [teamService EXCEPT
                  !.ran = Ran("respondToInvitation", userId, refused)]
         ELSE LET invitation == teamService.invitations[invitationId]
                  responded == [teamService EXCEPT
                                   !.invitations[invitationId].status = response]
                  error == IF response = "accepted"
                           THEN AddMemberError(responded, invitation.teamId, userId,
                                               invitation.invitedBy)
                           ELSE "none"
              IN teamService' =
                   [(IF response = "accepted" /\ error = "none"
                     THEN MemberAdded(responded, invitation.teamId, userId)
                     ELSE responded)
                       EXCEPT !.ran = Ran("respondToInvitation", userId, error)]
    /\ UNCHANGED TeamOnly

NextTeam ==
    \/ createTeam
    \/ deleteTeam
    \/ addTeamMember
    \/ removeTeamMember
    \/ createInvitation
    \/ InvitationExpires
    \/ respondToInvitation

SpecTeam == InitTeam /\ [][NextTeam]_vars


\* the step is a call of respondToInvitation
Responded == teamService' # teamService /\ teamService'.ran.op = "respondToInvitation"

\* the step made the invitation 'accepted'
BecameAccepted(invitationId) ==
    /\ teamService.invitations[invitationId].status # "accepted"
    /\ teamService'.invitations[invitationId].status = "accepted"

\* the step added the responding user to the team of the invitation
ResponderAdded(invitationId) ==
    LET teamId == teamService.invitations[invitationId].teamId
        userId == teamService'.ran.userId
    IN /\ ~Includes(MembersOf(teamService, teamId), userId)
       /\ Includes(MembersOf(teamService', teamId), userId)

\* C28: an invitation becomes 'accepted' only by a response that added the
\* responding user to the team of the invitation; a response that threw
\* (the inviter lost the admin permission, the user is a member already, the
\* team is full) left the invitation as it was, 'pending'
C28_AcceptedOnlyIfAdded ==
    [][Responded =>
         /\ \A invitationId \in 1..Len(teamService.invitations) :
                BecameAccepted(invitationId) => ResponderAdded(invitationId)
         /\ teamService'.ran.error # "none" =>
                teamService'.invitations = teamService.invitations]_vars

-----------------------------------------------------------------------------
\* ThemeService, src/unnamed/part_002 lines 1-730.
\*
\* themeService.themes is the Map of the service, themeService.generated the
\* number of ids generateId() has made.  Of a theme its id, name, isDefault
\* and colors are kept; the colors are named after the built-in theme they
\* were written for, "caller" when the caller sent them.

MaxThemes == 2

\* createDefaultThemes(), lines 14-416
DefaultThemeNames ==
    [light |-> "Light Theme", dark |-> "Dark Theme", blue |-> "Ocean Blue",
     green |-> "Forest Green", purple |-> "Royal Purple"]

createDefaultThemes ==
    [id \in DOMAIN DefaultThemeNames |->
        [id |-> id, name |-> DefaultThemeNames[id], isDefault |-> TRUE, colors |-> id]]

\* generateId(), lines 696-698: an id not made before
generateThemeId(generated) == "theme-" \o ToString(generated + 1)

\* theme.isDefault as a condition: undefined counts as false
IsDefault(theme) == "isDefault" \in DOMAIN theme /\ theme.isDefault

\* request bodies that validateTheme accepts (lines 664-693): a name, a type
\* and the required colors, and whatever else the caller adds
ThemeBodies ==
    {[name |-> "Mine", colors |-> "caller"],
     [name |-> "Mine", colors |-> "caller", id |-> "light"],
     [name |-> "Mine", colors |-> "caller", isDefault |-> TRUE]}

\* bodies of PUT /api/themes/:id, which are not validated
ThemeUpdates ==
    {[name |-> "Renamed"], [colors |-> "caller"], [isDefault |-> TRUE]}

ThemeOnly == <<mockConfigs, requestLogs, statistics, last, call, ret, loopVars,
               heapVars, limiter, webSocketService, teamService, users>>

\* the constructor, lines 2-11
InitTheme ==
    /\ mockConfigs = <<>>
    /\ requestLogs = <<>>
    /\ statistics = [totalRequests |-> 0, matchedRequests |-> 0, totalConfigs |-> 0,
                     enabledConfigs |-> 0, totalRoutes |-> 0]
    /\ last = NoRequest
    /\ call = Idle
    /\ ret = Pending
    /\ LoopIdle /\ HeapIdle
    /\ themeService = [themes |-> createDefaultThemes, generated |-> 0]
    /\ limiter = <<>> /\ webSocketService = <<>> /\ teamService = <<>>
    /\ users = <<>>

\* createTheme(themeData), lines 429-445: the fields of themeData are spread
\* over the generated id and isDefault: false
createTheme ==
    /\ themeService.generated < MaxThemes
    /\ \E themeData \in ThemeBodies :
         LET theme == themeData @@ [id |-> generateThemeId(themeService.generated),
                                    name |-> "Custom Theme", isDefault |-> FALSE]
         IN themeService' = [themes |-> (theme.id :> theme) @@ themeService.themes,
                             generated |-> themeService.generated + 1]
    /\ UNCHANGED ThemeOnly

\* updateTheme(id, updates), lines 448-465, where it changes a theme
updateTheme ==
    /\ \E id \in DOMAIN themeService.themes, updates \in ThemeUpdates :
         /\ ~IsDefault(themeService.themes[id])
         /\ themeService' = [themeService EXCEPT
                !.themes[id] = updates @@ @]
    /\ UNCHANGED ThemeOnly

\* deleteTheme(id), lines 468-478, where it deletes a theme
deleteTheme ==
    /\ \E id \in DOMAIN themeService.themes :
         /\ ~IsDefault(themeService.themes[id])
         /\ themeService' = [themeService EXCEPT
                !.themes = [k \in DOMAIN @ \ {id} |-> @[k]]]
    /\ UNCHANGED ThemeOnly

\* cloneTheme(id, newName), lines 481-497
cloneTheme ==
    /\ themeService.generated < MaxThemes
    /\ \E id \in DOMAIN themeService.themes :
         LET clonedTheme == [id |-> generateThemeId(themeService.generated),
                             name |-> "Copy", isDefault |-> FALSE]
                            @@ themeService.themes[id]
         IN themeService' = [themes |-> (clonedTheme.id :> clonedTheme) @@ themeService.themes,
                             generated |-> themeService.generated + 1]
    /\ UNCHANGED ThemeOnly

\* importThemes(data) with one theme in data.themes, lines 632-661: only the
\* id is replaced
importThemes ==
    /\ themeService.generated < MaxThemes
    /\ \E theme \in ThemeBodies :
         LET newTheme == [id |-> generateThemeId(themeService.generated)] @@ theme
         IN themeService' = [themes |-> (newTheme.id :> newTheme) @@ themeService.themes,
                             generated |-> themeService.generated + 1]
    /\ UNCHANGED ThemeOnly

NextTheme ==
    \/ createTheme
    \/ updateTheme
    \/ deleteTheme
    \/ cloneTheme
    \/ importThemes

SpecTheme == InitTheme /\ [][NextTheme]_vars


\* every built-in theme is stored under its id as the constructor stored it
BuiltInsKept ==
    \A id \in DOMAIN createDefaultThemes :
        /\ id \in DOMAIN themeService.themes
        /\ themeService.themes[id] = createDefaultThemes[id]

\* only the built-in themes are treated as default themes
OnlyBuiltInsDefault ==
    \A id \in DOMAIN themeService.themes :
        IsDefault(themeService.themes[id]) =>
            /\ id \in DOMAIN createDefaultThemes
            /\ themeService.themes[id] = createDefaultThemes[id]

\* C29: after any sequence of createTheme, updateTheme, deleteTheme,
\* cloneTheme and importThemes every built-in theme is stored under its id
\* with its content and isDefault true, and no theme of the caller is treated
\* as a default theme
C29_DefaultsKept == BuiltInsKept /\ OnlyBuiltInsDefault

-----------------------------------------------------------------------------
\* The admin panel, src/routes/admin.js, behind authenticate and requireAdmin,
\* src/unnamed/part_001 lines 5-119.
\*
\* users.db is the users collection: id -> [role, isActive], a deleted user
\* has no entry.  users.requests are the requests received; a handler runs
\* from one await of a database call to the next, and the database serves the
\* calls of different requests in any order.  pc is the call the request
\* waits for:
\*   "authenticate"  User.findById(decoded.id) of authenticate
\*   "find"          User.findById(req.params.id) of the handler
\*   "save"          user.save()
\*   "delete"        User.findByIdAndDelete(req.params.id)
\*   "bulk"          User.updateMany / User.deleteMany

MaxAdminRequests == 2

UserIds == {"a", "b"}

\* the bodies and parameters of the four routes
AdminCalls ==
    [kind : {"role"}, target : UserIds, role : {"user", "admin"}]
    \cup [kind : {"status"}, target : UserIds, isActive : BOOLEAN]
    \cup [kind : {"delete"}, target : UserIds]
    \cup [kind : {"bulk"}, action : {"activate", "deactivate", "delete"},
          userIds : SUBSET UserIds \ {{}}]

Answered(request, status) == [pc |-> "done", kind |-> request.kind, status |-> status]

ActiveAdmin(db, id) == id \in DOMAIN db /\ db[id].role = "admin" /\ db[id].isActive

UsersOnly == <<mockConfigs, requestLogs, statistics, last, call, ret, loopVars,
               heapVars, limiter, webSocketService, teamService, themeService>>

InitUsers ==
    /\ mockConfigs = <<>>
    /\ requestLogs = <<>>
    /\ statistics = [totalRequests |-> 0, matchedRequests |-> 0, totalConfigs |-> 0,
                     enabledConfigs |-> 0, totalRoutes |-> 0]
    /\ last = NoRequest
    /\ call = Idle
    /\ ret = Pending
    /\ LoopIdle /\ HeapIdle
    /\ \E role \in {"user", "admin"}, isActive \in BOOLEAN :
         users = [db |-> [id \in UserIds |->
                            IF id = "a" THEN [role |-> "admin", isActive |-> TRUE]
                            ELSE [role |-> role, isActive |-> isActive]],
                  requests |-> <<>>]
    /\ limiter = <<>> /\ webSocketService = <<>> /\ teamService = <<>>
    /\ themeService = <<>>

\* a request with a valid token of the caller arrives
ReceiveAdminRequest ==
    /\ Len(users.requests) < MaxAdminRequests
    /\ \E caller \in UserIds, adminCall \in AdminCalls :
         users' = [users EXCEPT
             !.requests = Append(@, adminCall @@ [caller |-> caller, pc |-> "authenticate"])]
    /\ UNCHANGED UsersOnly

\* authenticate, part_001 lines 5-44, and authorize('admin'), lines 96-116,
\* then the handler up to its first database call: admin.js lines 134-144,
\* 203-213, 319 and 518-562
authenticate(r) ==
    LET request == users.requests[r]
        caller == request.caller
    IN /\ request.pc = "authenticate"
       /\ users' = [users EXCEPT !.requests[r] =
            IF caller \notin DOMAIN users.db \/ ~users.db[caller].isActive
            THEN Answered(request, 401)
            ELSE IF users.db[caller].role # "admin" THEN Answered(request, 403)
            ELSE IF request.kind = "bulk"
                 THEN IF caller \in request.userIds
                      THEN Answered(request, 400)
                      ELSE [request EXCEPT !.pc = "bulk"]
            ELSE [request EXCEPT !.pc = "find"]]

\* User.findById(req.params.id) answers: the guard against acting on
\* oneself, admin.js lines 146-166, 215-234 and 321-337
findById(r) ==
    LET request == users.requests[r]
        isSelf == request.caller = request.target
    IN /\ request.pc = "find"
       /\ users' = [users EXCEPT !.requests[r] =
            IF request.target \notin DOMAIN users.db THEN Answered(request, 404)
            ELSE IF request.kind = "role"
                 THEN IF isSelf /\ request.role # "admin"
                      THEN Answered(request, 400) ELSE [request EXCEPT !.pc = "save"]
            ELSE IF request.kind = "status"
                 THEN IF isSelf /\ ~request.isActive
                      THEN Answered(request, 400) ELSE [request EXCEPT !.pc = "save"]
            ELSE IF isSelf THEN Answered(request, 400) ELSE [request EXCEPT !.pc = "delete"]]

\* user.save() writes the field the handler assigned, admin.js lines 164-166
\* and 233-234; it fails when the document is gone
save(r) ==
    LET request == users.requests[r]
        target == request.target
    IN /\ request.pc = "save"
       /\ users' =
            IF target \notin DOMAIN users.db
            THEN [users EXCEPT !.requests[r] = Answered(request, 500)]
            ELSE [users EXCEPT
                     !.db[target] = IF request.kind = "role"
                                    THEN [@ EXCEPT !.role = request.role]
                                    ELSE [@ EXCEPT !.isActive = request.isActive],
                     !.requests[r] = Answered(request, 200)]

\* User.findByIdAndDelete(req.params.id), admin.js line 337
findByIdAndDelete(r) ==
    LET request == users.requests[r] IN
    /\ request.pc = "delete"
    /\ users' = [users EXCEPT
           !.db = [id \in DOMAIN @ \ {request.target} |-> @[id]],
           !.requests[r] = Answered(request, 200)]

\* User.updateMany and User.deleteMany, admin.js lines 546-572
bulkWrite(r) ==
    LET request == users.requests[r] IN
    /\ request.pc = "bulk"
    /\ users' = [users EXCEPT
           !.db = IF request.action = "delete"
                  THEN [id \in DOMAIN @ \ request.userIds |-> @[id]]
                  ELSE [id \in DOMAIN @ |->
                           IF id \in request.userIds
                           THEN [@[id] EXCEPT !.isActive = (request.action = "activate")]
                           ELSE @[id]],
           !.requests[r] = Answered(request, 200)]

\* the database answers the call one of the requests waits for
Authenticate ==
    /\ \E r \in 1..Len(users.requests) : authenticate(r)
    /\ UNCHANGED UsersOnly

FindUser ==
    /\ \E r \in 1..Len(users.requests) : findById(r)
    /\ UNCHANGED UsersOnly

SaveUser ==
    /\ \E r \in 1..Len(users.requests) : save(r)
    /\ UNCHANGED UsersOnly

DeleteUser ==
    /\ \E r \in 1..Len(users.requests) : findByIdAndDelete(r)
    /\ UNCHANGED UsersOnly

BulkWrite ==
    /\ \E r \in 1..Len(users.requests) : bulkWrite(r)
    /\ UNCHANGED UsersOnly

NextUsers ==
    \/ ReceiveAdminRequest
    \/ Authenticate
    \/ FindUser
    \/ SaveUser
    \/ DeleteUser
    \/ BulkWrite

SpecUsers == InitUsers /\ [][NextUsers]_vars


\* C30: whatever admin-panel requests are served in whatever interleaving,
\* each by a caller who passed the admin check, an active admin account
\* remains
C30_ActiveAdminRemains == \E id \in UserIds : ActiveAdmin(users.db, id)


====
